---- MODULE Spec2Model ----
(***************************************************************************)
(* Model of hmha: the deduplication ledger (hmha/tracker.py), the apply    *)
(* state machine (hmha/applicant.py) and the session loop (main.py).       *)
(*                                                                         *)
(* Three specifications share the variables:                               *)
(*   SpecTracker  the ApplicationTracker driven through its public API     *)
(*                (construction = load, record) with every Application;    *)
(*   SpecApply    one invocation of JobApplicant.apply_to_job, step by     *)
(*                step, for every page behaviour;                          *)
(*   Spec         run_main: sessions over the two persistent log files.    *)
(*                                                                         *)
(* A CSV file is the sequence of its lines, the header line first.  Only   *)
(* the columns the tracker reads back (job_id, status, notes) are kept;    *)
(* Company is taken to carry the website and founders fields that          *)
(* record() and the scraper use.  A note is a sequence of tokens, so that  *)
(* str.startswith is a prefix test on sequences.                           *)
(***************************************************************************)
EXTENDS Integers, Sequences, FiniteSets, TLC

\* ---------------------------------------------------------------------
\* Bounds
\* ---------------------------------------------------------------------
\* record() calls in a run of SpecTracker
MaxRecords == 2
\* record() calls over all the sessions of a run of Spec
MaxSessionRecords == 1
\* invocations of apply_to_job on one page in a run of SpecApply
MaxCalls == 2

Range(seq) == {seq[i] : i \in 1..Len(seq)}

\* ---------------------------------------------------------------------
\* models.py
\* ---------------------------------------------------------------------
SENT == "sent"
SKIPPED == "skipped"
ERROR == "error"
DRY_RUN == "dry_run"

ApplicationStatus == {SENT, SKIPPED, ERROR, DRY_RUN}

\* job ids of postings; the empty id is what a Job gets from a URL without one
JobIds == {"j1", "j2"}
JobIdsAll == JobIds \cup {""}

\* notes, as token sequences
NoNote == << >>
NoteUserSkipped == <<"user_skipped">>
NoteLocationFiltered == <<"location_filtered", ": ", "Berlin">>
NoteAlreadyApplied == <<"already_applied_on_site">>
NoteNoApplyButton == <<"no_apply_button">>
NoteModalNotOpened == <<"modal_not_opened">>
NoteSubmitFailed == <<"submit_failed">>

Application(job_id, status, notes) ==
    [job_id |-> job_id, status |-> status, notes |-> notes]

\* ---------------------------------------------------------------------
\* tracker.py
\* ---------------------------------------------------------------------
CSV_HEADERS == [job_id |-> "job_id", status |-> "status", notes |-> <<"notes">>]

\* str.startswith
StartsWith(s, prefix) ==
    /\ Len(s) >= Len(prefix)
    /\ SubSeq(s, 1, Len(prefix)) = prefix

auto_skip_notes == {<<"location_filtered">>, <<"already_applied_on_site">>}

is_auto_skip(notes) == \E prefix \in auto_skip_notes : StartsWith(notes, prefix)

\* csv.DictReader: the first line names the fields, every later line is a row
DictReader(file) == IF file = << >> THEN << >> ELSE Tail(file)

EmptySets == [applied |-> {}, seen |-> {}]

\* LoadRow with error rows counted as reviewed
LoadRow_ErrorSeen(sets, row) ==
    IF row.job_id = "" THEN sets
    ELSE IF row.status = "sent"
         THEN [applied |-> sets.applied \cup {row.job_id},
               seen |-> sets.seen \cup {row.job_id}]
    ELSE IF row.status = "skipped" /\ is_auto_skip(row.notes) THEN sets
    ELSE IF row.status \in {"dry_run", "skipped", "error"}
         THEN [sets EXCEPT !.seen = @ \cup {row.job_id}]
    ELSE sets

\* LoadRow with a sent row marked seen but not applied
LoadRow_SentNotApplied(sets, row) ==
    IF row.job_id = "" THEN sets
    ELSE IF row.status = "sent"
         THEN [sets EXCEPT !.seen = @ \cup {row.job_id}]
    ELSE IF row.status = "skipped" /\ is_auto_skip(row.notes) THEN sets
    ELSE IF row.status \in {"dry_run", "skipped"}
         THEN [sets EXCEPT !.seen = @ \cup {row.job_id}]
    ELSE sets

\* LoadRow without the auto-skip test
LoadRow_AutoSkipSeen(sets, row) ==
    IF row.job_id = "" THEN sets
    ELSE IF row.status = "sent"
         THEN [applied |-> sets.applied \cup {row.job_id},
               seen |-> sets.seen \cup {row.job_id}]
    ELSE IF row.status \in {"dry_run", "skipped"}
         THEN [sets EXCEPT !.seen = @ \cup {row.job_id}]
    ELSE sets

\* one iteration of the row loop of _load_existing
LoadRow(sets, row) ==
    IF row.job_id = "" THEN sets
    ELSE IF row.status = "sent"
         THEN [applied |-> sets.applied \cup {row.job_id},
               seen |-> sets.seen \cup {row.job_id}]
    ELSE IF row.status = "skipped" /\ is_auto_skip(row.notes) THEN sets
    ELSE IF row.status \in {"dry_run", "skipped"}
         THEN [sets EXCEPT !.seen = @ \cup {row.job_id}]
    ELSE sets

RECURSIVE LoadRows(_, _)
LoadRows(sets, rows) ==
    IF rows = << >> THEN sets
    ELSE LoadRows(LoadRow(sets, Head(rows)), Tail(rows))

\* _load_existing: both files, applications.csv first
load_existing(apps_file, dry_file) ==
    LoadRows(LoadRows(EmptySets, DictReader(apps_file)), DictReader(dry_file))

\* ApplicationTracker.__init__
NewTrackerState(dry_run, apps_file, dry_file) ==
    LET sets == load_existing(apps_file, dry_file)
    IN  [dry_run |-> dry_run, applied_ids |-> sets.applied, seen_ids |-> sets.seen]

NoTracker == [dry_run |-> FALSE, applied_ids |-> {}, seen_ids |-> {}]

\* AppendRow writing the header on every call
AppendRow_AlwaysHeader(file, application) ==
    Append(Append(file, CSV_HEADERS), application)

\* record(), lines 122-144: the file after the append
AppendRow(file, application) ==
    LET is_new_file == file = << >>
        withHeader == IF is_new_file THEN <<CSV_HEADERS>> ELSE file
    IN  Append(withHeader, application)

\* RecordFiles choosing the file by the status of the record
RecordFiles_ByStatus(dry_run, files, application) ==
    IF application.status = "dry_run"
    THEN [files EXCEPT !.dry = AppendRow(files.dry, application)]
    ELSE [files EXCEPT !.apps = AppendRow(files.apps, application)]

\* record(), lines 117-144: the two files after the call
RecordFiles(dry_run, files, application) ==
    IF dry_run
    THEN [files EXCEPT !.dry = AppendRow(files.dry, application)]
    ELSE [files EXCEPT !.apps = AppendRow(files.apps, application)]

\* RecordSets that forgets the seen set
RecordSets_NoSeen(t, application) ==
    IF application.status = "sent"
    THEN [t EXCEPT !.applied_ids = @ \cup {application.job_id}]
    ELSE t

\* RecordSets that leaves a sent job out of the seen set
RecordSets_SentNotSeen(t, application) ==
    IF application.status = "sent"
    THEN [t EXCEPT !.applied_ids = @ \cup {application.job_id}]
    ELSE IF ~is_auto_skip(application.notes)
         THEN [t EXCEPT !.seen_ids = @ \cup {application.job_id}]
         ELSE t

\* record(), lines 146-155: the in-memory sets after the call
RecordSets(t, application) ==
    LET seen1 == IF ~is_auto_skip(application.notes)
                 THEN t.seen_ids \cup {application.job_id}
                 ELSE t.seen_ids
        applied1 == IF application.status = "sent"
                    THEN t.applied_ids \cup {application.job_id}
                    ELSE t.applied_ids
    IN  [t EXCEPT !.seen_ids = seen1, !.applied_ids = applied1]

\* has_applied that answers from the seen set
has_applied_BySeen(t, job_id) == job_id \in t.seen_ids

has_applied(t, job_id) == job_id \in t.applied_ids

has_seen(t, job_id) == job_id \in t.seen_ids

\* ---------------------------------------------------------------------
\* applicant.py
\* ---------------------------------------------------------------------
\* What the page does at each point where apply_to_job touches it.
AlreadyOutcomes == {"present", "absent", "raise"}
ApplyOutcomes == {"clicked", "none", "wait_raise", "click_raise"}
ModalOutcomes == {"appears", "timeout"}
FillOutcomes == {"ok", "wait_raise", "none", "click_raise", "fill_raise", "evaluate_raise"}
SendOutcomes == {"closed", "stays_open", "hidden_raise", "none", "wait_raise", "click_raise"}
CloseOutcomes == {"clicked", "none", "click_raise_escape", "click_raise_escape_raise",
                  "query_raise_escape", "query_raise_escape_raise"}

PageBehaviours ==
    [already : AlreadyOutcomes, apply : ApplyOutcomes, modal : ModalOutcomes,
     fill : FillOutcomes, send : SendOutcomes, close : CloseOutcomes]

NoResult == [kind |-> "none", status |-> "", notes |-> NoNote]
Raised == [kind |-> "raise", status |-> "", notes |-> NoNote]
Returned(status, notes) == [kind |-> "application", status |-> status, notes |-> notes]

\* _is_already_applied
is_already_applied(page) == page.already = "present"

\* _click_apply_button: the page actions made, and the value returned
click_apply_button_trace(page) ==
    IF page.apply \in {"clicked", "click_raise"}
    THEN <<"wait_apply", "click_apply">>
    ELSE <<"wait_apply">>

click_apply_button(page) == page.apply = "clicked"

\* _wait_for_modal
wait_for_modal(page) == page.modal = "appears"

\* _fill_message: the page actions made, and whether it raised
fill_message_trace(page) ==
    CASE page.fill \in {"wait_raise", "none"} -> <<"wait_textarea">>
      [] page.fill = "click_raise" -> <<"wait_textarea", "click_textarea">>
      [] page.fill = "fill_raise" -> <<"wait_textarea", "click_textarea", "fill_textarea">>
      [] OTHER -> <<"wait_textarea", "click_textarea", "fill_textarea", "dispatch_events">>

\* _fill_message that never raises
fill_message_raises_Never(page) == FALSE

fill_message_raises(page) == page.fill # "ok"

\* _submit_application
submit_application_trace(page) ==
    CASE page.send \in {"wait_raise", "none"} -> <<"wait_send">>
      [] page.send = "click_raise" -> <<"wait_send", "click_send">>
      [] OTHER -> <<"wait_send", "click_send", "wait_hidden">>

\* _submit_application that reports a failure when the dialog stays open
submit_application_Pessimistic(page) == page.send = "closed"

submit_application(page) == page.send \in {"closed", "stays_open", "hidden_raise"}

\* _close_modal
close_modal_trace(page) ==
    CASE page.close = "clicked" -> <<"query_close", "click_close">>
      [] page.close = "none" -> <<"query_close">>
      [] page.close \in {"click_raise_escape", "click_raise_escape_raise"} ->
            <<"query_close", "click_close", "press_escape">>
      [] OTHER -> <<"query_close", "press_escape">>

close_modal_closes(page) ==
    page.close \in {"clicked", "click_raise_escape", "query_raise_escape"}

\* apply_to_job, one statement group at a time.  a is the invocation's state:
\* the page, the dry_run flag, the position, the page actions made so far,
\* whether the dialog is open, and the outcome.
ApStart(page, dry_run) ==
    [page |-> page, dry_run |-> dry_run, pc |-> "check", trace |-> << >>,
     modal_open |-> FALSE, result |-> NoResult, calls |-> 1, prev |-> NoResult]

ApIdle ==
    [page |-> [already |-> "absent", apply |-> "clicked", modal |-> "appears",
               fill |-> "ok", send |-> "closed", close |-> "clicked"],
     dry_run |-> FALSE, pc |-> "idle", trace |-> << >>,
     modal_open |-> FALSE, result |-> NoResult, calls |-> 0, prev |-> NoResult]

Finish(a, result) == [a EXCEPT !.pc = "done", !.result = result]

\* apply_to_job called once more by the same JobApplicant on the same page:
\* calls counts the invocations, prev keeps the outcome of the one before
ApAgain(a) ==
    [ApStart(a.page, a.dry_run) EXCEPT !.calls = a.calls + 1, !.prev = a.result]

\* StepCheck that does not return when the indicator is present
StepCheck_NoShortCircuit(a) ==
    [a EXCEPT !.trace = Append(@, "query_already"), !.pc = "click_apply"]

\* lines 31-39
StepCheck(a) ==
    LET a1 == [a EXCEPT !.trace = Append(@, "query_already")]
    IN  IF is_already_applied(a.page)
        THEN Finish(a1, Returned(SKIPPED, NoteAlreadyApplied))
        ELSE [a1 EXCEPT !.pc = "click_apply"]

\* StepClickApply that raises when the apply control is missing
StepClickApply_Raises(a) ==
    LET a1 == [a EXCEPT !.trace = @ \o click_apply_button_trace(a.page)]
    IN  IF ~click_apply_button(a.page)
        THEN Finish(a1, Raised)
        ELSE [a1 EXCEPT !.pc = "wait_modal"]

\* lines 41-49
StepClickApply(a) ==
    LET a1 == [a EXCEPT !.trace = @ \o click_apply_button_trace(a.page)]
    IN  IF ~click_apply_button(a.page)
        THEN Finish(a1, Returned(ERROR, NoteNoApplyButton))
        ELSE [a1 EXCEPT !.pc = "wait_modal"]

\* StepWaitModal that goes on to the fill when the dialog did not appear
StepWaitModal_Proceeds(a) ==
    [a EXCEPT !.trace = Append(@, "wait_modal"), !.pc = "fill",
              !.modal_open = wait_for_modal(a.page)]

\* lines 51-59
StepWaitModal(a) ==
    LET a1 == [a EXCEPT !.trace = Append(@, "wait_modal")]
    IN  IF ~wait_for_modal(a.page)
        THEN Finish(a1, Returned(ERROR, NoteModalNotOpened))
        ELSE [a1 EXCEPT !.pc = "fill", !.modal_open = TRUE]

\* StepFill that swallows a failure of _fill_message and goes on
StepFill_Swallow(a) ==
    [a EXCEPT !.trace = @ \o fill_message_trace(a.page),
              !.pc = IF a.dry_run THEN "dry_run" ELSE "submit"]

\* lines 61-65
StepFill(a) ==
    LET a1 == [a EXCEPT !.trace = @ \o fill_message_trace(a.page)]
    IN  IF fill_message_raises(a.page)
        THEN Finish(a1, Raised)
        ELSE [a1 EXCEPT !.pc = IF a.dry_run THEN "dry_run" ELSE "submit"]

\* StepDryRun that falls through to the send
StepDryRun_Sends(a) ==
    LET a1 == [a EXCEPT !.trace = @ \o submit_application_trace(a.page),
                        !.modal_open = a.page.send # "closed"]
    IN  IF submit_application(a.page)
        THEN Finish(a1, Returned(SENT, NoNote))
        ELSE [a1 EXCEPT !.pc = "submit_failed"]

\* lines 64-72
StepDryRun(a) ==
    LET a1 == [a EXCEPT !.trace = @ \o close_modal_trace(a.page),
                        !.modal_open = ~close_modal_closes(a.page)]
    IN  Finish(a1, Returned(DRY_RUN, NoNote))

\* lines 74-81
StepSubmit(a) ==
    LET a1 == [a EXCEPT !.trace = @ \o submit_application_trace(a.page),
                        !.modal_open = a.page.send # "closed"]
    IN  IF submit_application(a.page)
        THEN Finish(a1, Returned(SENT, NoNote))
        ELSE [a1 EXCEPT !.pc = "submit_failed"]

\* StepSubmitFailed that leaves the note out
StepSubmitFailed_NoNote(a) ==
    LET a1 == [a EXCEPT !.trace = @ \o close_modal_trace(a.page),
                        !.modal_open = ~close_modal_closes(a.page)]
    IN  Finish(a1, Returned(ERROR, NoNote))

\* lines 82-90
StepSubmitFailed(a) ==
    LET a1 == [a EXCEPT !.trace = @ \o close_modal_trace(a.page),
                        !.modal_open = ~close_modal_closes(a.page)]
    IN  Finish(a1, Returned(ERROR, NoteSubmitFailed))

ApStep(a) ==
    CASE a.pc = "check" -> StepCheck(a)
      [] a.pc = "click_apply" -> StepClickApply(a)
      [] a.pc = "wait_modal" -> StepWaitModal(a)
      [] a.pc = "fill" -> StepFill(a)
      [] a.pc = "dry_run" -> StepDryRun(a)
      [] a.pc = "submit" -> StepSubmit(a)
      [] a.pc = "submit_failed" -> StepSubmitFailed(a)
      [] OTHER -> a

\* apply_to_job run to its end
RECURSIVE RunApply(_)
RunApply(a) == IF a.pc \in {"done", "idle"} THEN a ELSE RunApply(ApStep(a))

apply_to_job(page, dry_run) == RunApply(ApStart(page, dry_run)).result

\* ---------------------------------------------------------------------
\* scraper.py, reviewer.py and main.py: the parts of a session
\* ---------------------------------------------------------------------
Min(a, b) == IF a < b THEN a ELSE b

\* the job links of a listing page, by the id _extract_job_id finds in each
\* ("" when the link has none)
RawLinks == UNION {[1..n -> JobIdsAll] : n \in 0..Cardinality(JobIds)}

\* DedupeStubs that does not look at seen_ids
RECURSIVE DedupeStubs_NoSeen(_, _, _)
DedupeStubs_NoSeen(raw, seen_ids, jobs) ==
    IF raw = << >> THEN jobs
    ELSE LET job_id == Head(raw)
         IN  IF job_id = ""
             THEN DedupeStubs_NoSeen(Tail(raw), seen_ids, jobs)
             ELSE DedupeStubs_NoSeen(Tail(raw), seen_ids \cup {job_id}, Append(jobs, job_id))

\* scrape_job_listings, lines 128-159: the loop over raw_stubs[:max_jobs]
RECURSIVE DedupeStubs(_, _, _)
DedupeStubs(raw, seen_ids, jobs) ==
    IF raw = << >> THEN jobs
    ELSE LET job_id == Head(raw)
         IN  IF job_id = "" \/ job_id \in seen_ids
             THEN DedupeStubs(Tail(raw), seen_ids, jobs)
             ELSE DedupeStubs(Tail(raw), seen_ids \cup {job_id}, Append(jobs, job_id))

scrape_job_listings(raw_stubs, max_jobs) ==
    DedupeStubs(SubSeq(raw_stubs, 1, Min(max_jobs, Len(raw_stubs))), {}, << >>)

\* FilterStubs that filters nothing in --show-seen mode
RECURSIVE FilterStubs_ShowSeenUnfiltered(_, _, _)
FilterStubs_ShowSeenUnfiltered(stubs, t, show_seen) ==
    IF stubs = << >> THEN << >>
    ELSE LET j == Head(stubs)
             rest == FilterStubs_ShowSeenUnfiltered(Tail(stubs), t, show_seen)
             excluded == IF show_seen THEN FALSE ELSE has_seen(t, j)
         IN  IF excluded THEN rest ELSE <<j>> \o rest

\* main.py lines 159-164
RECURSIVE FilterStubs(_, _, _)
FilterStubs(stubs, t, show_seen) ==
    IF stubs = << >> THEN << >>
    ELSE LET j == Head(stubs)
             rest == FilterStubs(Tail(stubs), t, show_seen)
             excluded == IF show_seen THEN has_applied(t, j) ELSE has_seen(t, j)
         IN  IF excluded THEN rest ELSE <<j>> \o rest

\* main.py lines 171-184: group by company key, in order of first appearance
Companies == {"A", "B"}

RECURSIVE GroupStubs(_, _, _)
GroupStubs(stubs, company_of, groups) ==
    IF stubs = << >> THEN groups
    ELSE LET j == Head(stubs)
             key == company_of[j]
             found == {i \in 1..Len(groups) : groups[i].name = key}
         IN  IF found = {}
             THEN GroupStubs(Tail(stubs), company_of,
                             Append(groups, [name |-> key, stubs |-> <<j>>]))
             ELSE LET i == CHOOSE k \in found : TRUE
                  IN  GroupStubs(Tail(stubs), company_of,
                                 [groups EXCEPT ![i].stubs = Append(@, j)])

\* main.py line 184, company_list; the loop reads the name only to print it
company_groups(stubs, company_of) ==
    LET groups == GroupStubs(stubs, company_of, << >>)
    IN  [i \in 1..Len(groups) |-> groups[i].stubs]

\* reviewer.py pick_jobs_from_company: the lists it can return for job_stubs;
\* a typed list of numbers may repeat a number and is kept as typed
MaxPick == Cardinality(JobIds)

\* --max-applications
Budgets == 0..MaxSessionRecords

PickSelections(job_stubs) ==
    IF Len(job_stubs) = 1 THEN {job_stubs}
    ELSE {job_stubs} \cup
         {[k \in 1..Len(idx) |-> job_stubs[idx[k]]] :
             idx \in UNION {[1..m -> 1..Len(job_stubs)] : m \in 1..MaxPick}}

\* utils.py retry_async(max_retries=3) around ai.py generate_message: the
\* attempts are made in turn until one succeeds; failures counts those that
\* raised, and the last error is raised once all have
max_retries == 3

GenAttempts == [1..max_retries -> {"ok", "fail"}]

RECURSIVE RetryLoop(_, _)
RetryLoop(attempts, attempt) ==
    IF attempt >= max_retries
    THEN [kind |-> "raise", failures |-> attempt]
    ELSE IF attempts[attempt + 1] = "ok"
         THEN [kind |-> "ok", failures |-> attempt]
         ELSE RetryLoop(attempts, attempt + 1)

\* retry_async that gives up after the first failure
retry_async_NoRetry(attempts) ==
    IF attempts[1] = "ok"
    THEN [kind |-> "ok", failures |-> 0]
    ELSE [kind |-> "raise", failures |-> 1]

retry_async(attempts) == RetryLoop(attempts, 0)

\* ai.py line 141: backoff_base=2.0
backoff_base == 2

\* the ** operator on a whole exponent
RECURSIVE Pow(_, _)
Pow(b, n) == IF n = 0 THEN 1 ELSE b * Pow(b, n - 1)

\* the wait that grows by backoff_base per attempt instead of by its power
backoff_wait_Linear(attempt) == backoff_base * attempt

\* utils.py line 59
backoff_wait(attempt) == Pow(backoff_base, attempt)

NoMessage == [text |-> "", failures |-> 0]

\* no document at hand
NoDoc == [kind |-> "none"]

\* main.py lines 261-275: summarize_for_display catches its own failures, so
\* the gather raises only when generate_message does, and then
\* generate_fallback supplies the template
gather_message(attempts) ==
    LET r == retry_async(attempts)
    IN  [text |-> IF r.kind = "ok" THEN "generated" ELSE "fallback",
         failures |-> r.failures]

\* the outcomes of apply_to_job over all page behaviours
ApplyResultsLive == {apply_to_job(page, FALSE) : page \in PageBehaviours}
\* the outcomes in a dry-run session whose JobApplicant is built without the flag
ApplyResultsDry_LiveApplicant == {apply_to_job(page, FALSE) : page \in PageBehaviours}

ApplyResultsDry == {apply_to_job(page, TRUE) : page \in PageBehaviours}

\* ---------------------------------------------------------------------
\* scraper.py: text as the sequence of its characters
\* ---------------------------------------------------------------------
\* chunks a text is put together from in a run of SpecClean
MaxChunks == 4
\* lines of a job page in a run of SpecExtract
MaxDocLines == 4
MaxLinks == 6
MaxRawLinks == 4
MaxJobsArg == 3

Whitespace == {" ", "\n"}

UpperCase == <<"A", "B", "C", "D", "E", "F", "G", "H", "I", "J", "K", "L", "M", "N", "O", "P", "Q", "R", "S", "T", "U", "V", "W", "X", "Y", "Z">>

LowerCase == <<"a", "b", "c", "d", "e", "f", "g", "h", "i", "j", "k", "l", "m", "n", "o", "p", "q", "r", "s", "t", "u", "v", "w", "x", "y", "z">>

Letters == Range(UpperCase) \cup Range(LowerCase)

\* str.lower, str.isalpha, str.strip, str.split, str.join
lower_map ==
    [c \in Range(UpperCase) |-> LowerCase[CHOOSE i \in 1..Len(UpperCase) : UpperCase[i] = c]]

lower_char(c) == IF c \in DOMAIN lower_map THEN lower_map[c] ELSE c

lower(s) == [i \in 1..Len(s) |-> lower_char(s[i])]

isalpha(s) == s # << >> /\ \A i \in 1..Len(s) : s[i] \in Letters

RECURSIVE lstrip(_)
lstrip(s) == IF s # << >> /\ Head(s) \in Whitespace THEN lstrip(Tail(s)) ELSE s

RECURSIVE rstrip(_)
rstrip(s) ==
    IF s # << >> /\ s[Len(s)] \in Whitespace THEN rstrip(SubSeq(s, 1, Len(s) - 1)) ELSE s

strip(s) == rstrip(lstrip(s))

RECURSIVE split(_, _)
split(s, sep) ==
    IF \A i \in 1..Len(s) : s[i] # sep THEN <<s>>
    ELSE LET i == CHOOSE k \in 1..Len(s) : s[k] = sep /\ \A m \in 1..(k - 1) : s[m] # sep
         IN  <<SubSeq(s, 1, i - 1)>> \o split(SubSeq(s, i + 1, Len(s)), sep)

RECURSIVE join(_, _)
join(lines, sep) ==
    IF lines = << >> THEN << >>
    ELSE IF Len(lines) = 1 THEN lines[1]
    ELSE lines[1] \o <<sep>> \o join(Tail(lines), sep)

\* _clean_scraped_text, lines 488-492
garbage_words == {
    <<"C", "o", "m", "p", "a", "n", "i", "e", "s">>,
    <<"L", "i", "b", "r", "a", "r", "y">>,
    <<"P", "a", "r", "t", "n", "e", "r", "s">>,
    <<"R", "e", "s", "o", "u", "r", "c", "e", "s">>,
    <<"S", "t", "a", "r", "t", "u", "p", " ", "J", "o", "b", "s">>,
    <<"S", "i", "g", "n", " ", "u", "p">>,
    <<"L", "o", "g", " ", "i", "n">>,
    <<"S", "i", "g", "n", " ", "i", "n">>,
    <<"P", "r", "i", "v", "a", "c", "y">>,
    <<"T", "e", "r", "m", "s">>,
    <<"C", "o", "n", "n", "e", "c", "t", " ", "d", "i", "r", "e", "c", "t", "l", "y", " ", "w", "i", "t", "h", " ", "f", "o", "u", "n", "d", "e", "r", "s">>,
    <<"Y", " ", "C", "o", "m", "b", "i", "n", "a", "t", "o", "r">>}

allowed_short == {<<"r", "e", "m", "o", "t", "e">>, <<"o", "n", "s", "i", "t", "e">>, <<"h", "y", "b", "r", "i", "d">>}

\* CleanLines that looks the untrimmed line up in garbage_words
RECURSIVE CleanLines_RawGarbage(_)
CleanLines_RawGarbage(lines) ==
    IF lines = << >> THEN << >>
    ELSE LET stripped == strip(Head(lines))
             rest == CleanLines_RawGarbage(Tail(lines))
         IN  IF stripped = << >> THEN rest
             ELSE IF Head(lines) \in garbage_words THEN rest
             ELSE IF Len(stripped) < 15 /\ (\A i \in 1..Len(stripped) : stripped[i] # " ")
                        /\ isalpha(stripped)
                  THEN IF lower(stripped) \in allowed_short
                       THEN <<stripped>> \o rest
                       ELSE rest
             ELSE <<stripped>> \o rest

\* lines 496-509: the loop over the lines
RECURSIVE CleanLines(_)
CleanLines(lines) ==
    IF lines = << >> THEN << >>
    ELSE LET stripped == strip(Head(lines))
             rest == CleanLines(Tail(lines))
         IN  IF stripped = << >> THEN rest
             ELSE IF stripped \in garbage_words THEN rest
             ELSE IF Len(stripped) < 15 /\ (\A i \in 1..Len(stripped) : stripped[i] # " ")
                        /\ isalpha(stripped)
                  THEN IF lower(stripped) \in allowed_short
                       THEN <<stripped>> \o rest
                       ELSE rest
             ELSE <<stripped>> \o rest

\* _clean_scraped_text, lines 482-516
clean_scraped_text(text) ==
    IF text = << >> THEN << >>
    ELSE LET result == strip(join(CleanLines(split(text, "\n")), "\n"))
         IN  IF Len(result) < 15 THEN << >> ELSE result

\* _extract_section: the two regular expressions, read on the characters
Digits == {"0", "1", "2", "3", "4", "5", "6", "7", "8", "9"}

\* \w and \s
WordChar(c) == c \in Letters \cup Digits \cup {"_"}

IsSpace(c) == c \in Whitespace

\* the word w at position p of s, under re.IGNORECASE
MatchAt(s, p, w) ==
    /\ p >= 1
    /\ p + Len(w) - 1 <= Len(s)
    /\ \A i \in 1..Len(w) : lower_char(s[p + i - 1]) = lower_char(w[i])

\* \s* taken greedily from position p: the first position not holding a blank
RECURSIVE SkipSpace(_, _)
SkipSpace(s, p) ==
    IF p <= Len(s) /\ IsSpace(s[p]) THEN SkipSpace(s, p + 1) ELSE p

\* the headings that end a section, lines 344 and 355
boundary_vocabulary1 == {
    <<"A", "b", "o", "u", "t">>,
    <<"R", "e", "q", "u", "i", "r", "e", "m", "e", "n", "t", "s">>,
    <<"Q", "u", "a", "l", "i", "f", "i", "c", "a", "t", "i", "o", "n", "s">>,
    <<"C", "u", "l", "t", "u", "r", "e">>,
    <<"V", "a", "l", "u", "e", "s">>,
    <<"B", "e", "n", "e", "f", "i", "t", "s">>,
    <<"P", "e", "r", "k", "s">>,
    <<"W", "h", "a", "t", " ", "y", "o", "u">>,
    <<"T", "h", "e", " ", "r", "o", "l", "e">>,
    <<"W", "h", "o", " ", "y", "o", "u">>,
    <<"S", "k", "i", "l", "l", "s">>,
    <<"R", "e", "s", "p", "o", "n", "s", "i", "b", "i", "l", "i", "t", "i", "e", "s">>,
    <<"A", "p", "p", "l", "y">>,
    <<"A", "l", "r", "e", "a", "d", "y">>}

boundary_vocabulary2 == {
    <<"A", "b", "o", "u", "t">>,
    <<"R", "e", "q", "u", "i", "r", "e", "m", "e", "n", "t", "s">>,
    <<"Q", "u", "a", "l", "i", "f", "i", "c", "a", "t", "i", "o", "n", "s">>,
    <<"C", "u", "l", "t", "u", "r", "e">>,
    <<"V", "a", "l", "u", "e", "s">>,
    <<"B", "e", "n", "e", "f", "i", "t", "s">>,
    <<"W", "h", "a", "t", " ", "y", "o", "u">>,
    <<"T", "h", "e", " ", "r", "o", "l", "e">>,
    <<"W", "h", "o", " ", "y", "o", "u">>,
    <<"S", "k", "i", "l", "l", "s">>,
    <<"A", "p", "p", "l", "y">>}

\* Lookahead that sees the end of the text only
Lookahead_EndOnly(s, e, words) == e = Len(s) + 1

\* (?=\n\s*(?:...)\b|\Z) at position e
Lookahead(s, e, words) ==
    \/ e = Len(s) + 1
    \/ /\ e <= Len(s)
       /\ s[e] = "\n"
       /\ LET q == SkipSpace(s, e + 1)
          IN  \E w \in words :
                /\ MatchAt(s, q, w)
                /\ (q + Len(w) > Len(s) \/ ~WordChar(s[q + Len(w)]))

\* ([\s\S]*?) from cs: it ends at the first position where the lookahead holds
Capture(s, cs, words) ==
    LET ends == {k \in cs..(Len(s) + 1) : Lookahead(s, k, words)}
        e == CHOOSE k \in ends : \A m \in ends : k <= m
    IN  SubSeq(s, cs, e - 1)

\* lines 343-347: the header alone on its line; the leftmost match
HeaderLine(s, h, header) ==
    /\ MatchAt(s, h, header)
    /\ \E p \in 0..(h - 1) :
        /\ p = 0 \/ s[p] = "\n"
        /\ \A m \in (p + 1)..(h - 1) : IsSpace(s[m])
    /\ \E n \in (h + Len(header))..(SkipSpace(s, h + Len(header)) - 1) : s[n] = "\n"

Strategy1(s, header) ==
    LET found == {k \in 1..Len(s) : HeaderLine(s, k, header)}
    IN
    IF found # {}
    THEN LET h == CHOOSE k \in found : \A m \in found : k <= m
             r == SkipSpace(s, h + Len(header))
             n == CHOOSE k \in (h + Len(header))..(r - 1) :
                    s[k] = "\n" /\ \A m \in (k + 1)..(r - 1) : s[m] # "\n"
         IN  [matched |-> TRUE, text |-> strip(Capture(s, n + 1, boundary_vocabulary1))]
    ELSE [matched |-> FALSE, text |-> << >>]

\* lines 354-358: the header anywhere, an optional colon after it
Strategy2(s, header) ==
    LET found == {k \in 1..Len(s) : MatchAt(s, k, header)}
    IN
    IF found # {}
    THEN LET h == CHOOSE k \in found : \A m \in found : k <= m
             q == SkipSpace(s, h + Len(header))
             cs == IF q <= Len(s) /\ s[q] = ":" THEN SkipSpace(s, q + 1) ELSE q
         IN  [matched |-> TRUE, text |-> strip(Capture(s, cs, boundary_vocabulary2))]
    ELSE [matched |-> FALSE, text |-> << >>]

\* lines 350-351 and 361-362
Accepted(m) == m.matched /\ m.text # << >> /\ Len(m.text) > 10

Truncate(text) == IF Len(text) > 1000 THEN SubSeq(text, 1, 1000) ELSE text

\* _extract_section, lines 336-364
RECURSIVE extract_section(_, _)
extract_section(page_text, headers) ==
    IF headers = << >> THEN << >>
    ELSE LET m1 == Strategy1(page_text, Head(headers))
             m2 == Strategy2(page_text, Head(headers))
         IN  IF Accepted(m1) THEN Truncate(m1.text)
             ELSE IF Accepted(m2) THEN Truncate(m2.text)
             ELSE extract_section(page_text, Tail(headers))

\* scrape_job_detail, lines 238-254
company_description_headers == <<
    <<"A", "b", "o", "u", "t">>,
    <<"A", "b", "o", "u", "t", " ", "t", "h", "e", " ", "c", "o", "m", "p", "a", "n", "y">>,
    <<"A", "b", "o", "u", "t", " ", "u", "s">>,
    <<"W", "h", "o", " ", "w", "e", " ", "a", "r", "e">>,
    <<"W", "h", "a", "t", " ", "w", "e", " ", "d", "o">>>>

requirements_headers == <<
    <<"R", "e", "q", "u", "i", "r", "e", "m", "e", "n", "t", "s">>,
    <<"Q", "u", "a", "l", "i", "f", "i", "c", "a", "t", "i", "o", "n", "s">>,
    <<"W", "h", "a", "t", " ", "w", "e", "'", "r", "e", " ", "l", "o", "o", "k", "i", "n", "g", " ", "f", "o", "r">>,
    <<"Y", "o", "u", " ", "s", "h", "o", "u", "l", "d", " ", "h", "a", "v", "e">>,
    <<"W", "h", "a", "t", " ", "y", "o", "u", " ", "b", "r", "i", "n", "g">>,
    <<"S", "k", "i", "l", "l", "s">>,
    <<"M", "i", "n", "i", "m", "u", "m", " ", "q", "u", "a", "l", "i", "f", "i", "c", "a", "t", "i", "o", "n", "s">>>>

company_description_of(page_text) ==
    clean_scraped_text(extract_section(page_text, company_description_headers))

requirements_of(page_text) ==
    clean_scraped_text(extract_section(page_text, requirements_headers))

\* _extract_founders, lines 525-529
junk_names == {
    <<"l", "i", "n", "k", "e", "d", "i", "n">>,
    <<"c", "o", "n", "n", "e", "c", "t">>,
    <<"v", "i", "e", "w", " ", "p", "r", "o", "f", "i", "l", "e">>,
    <<"f", "o", "l", "l", "o", "w">>,
    <<"s", "i", "m", "i", "l", "a", "r", " ", "j", "o", "b", "s">>,
    <<"a", "p", "p", "l", "y">>,
    <<"s", "h", "a", "r", "e">>,
    <<"s", "a", "v", "e">>,
    <<"b", "a", "c", "k">>,
    <<"n", "e", "x", "t">>,
    <<"p", "r", "e", "v", "i", "o", "u", "s">>,
    <<"s", "i", "g", "n", " ", "u", "p">>,
    <<"l", "o", "g", " ", "i", "n">>,
    <<"s", "i", "g", "n", " ", "i", "n">>,
    <<"v", "i", "e", "w", " ", "a", "l", "l", " ", "j", "o", "b", "s">>,
    <<"s", "e", "e", " ", "a", "l", "l", " ", "j", "o", "b", "s">>,
    <<"a", "l", "l", " ", "j", "o", "b", "s">>}

\* str.split() without a separator: the words between runs of blanks
RECURSIVE split_words(_)
split_words(s) ==
    LET t == lstrip(s)
    IN  IF t = << >> THEN << >>
        ELSE LET e == CHOOSE k \in 1..(Len(t) + 1) :
                        /\ k > Len(t) \/ IsSpace(t[k])
                        /\ \A m \in 1..(k - 1) : ~IsSpace(t[m])
             IN  <<SubSeq(t, 1, e - 1)>> \o split_words(SubSeq(t, e, Len(t)))

\* the in operator on strings
Contains(s, w) ==
    \E p \in 1..(Len(s) - Len(w) + 1) : SubSeq(s, p, p + Len(w) - 1) = w

\* lines 546-560: the tests a link's text has to pass
name_qualifies(name) ==
    LET name_normalized == join(split_words(lower(name)), " ")
        words == split_words(name)
    IN  /\ name # << >>
        /\ Len(name) >= 3
        /\ Len(name) <= 50
        /\ name_normalized \notin junk_names
        /\ \A junk \in junk_names : ~Contains(name_normalized, junk)
        /\ Len(words) >= 2
        /\ Len(words) <= 4
        /\ \A i \in 1..Len(words) : isalpha(words[i])

Founder(name, linkedin) == [name |-> name, linkedin |-> linkedin]

\* FounderLoop that does not look at seen_hrefs
RECURSIVE FounderLoop_NoSeen(_, _, _)
FounderLoop_NoSeen(raw, seen_hrefs, founders) ==
    IF raw = << >> THEN founders
    ELSE LET href == Head(raw).href
             name == strip(Head(raw).name)
         IN  IF name_qualifies(name)
             THEN FounderLoop_NoSeen(Tail(raw), seen_hrefs \cup {href},
                                     Append(founders, Founder(name, href)))
             ELSE FounderLoop_NoSeen(Tail(raw), seen_hrefs \cup {href}, founders)

\* lines 538-562: the loop over the profile links
RECURSIVE FounderLoop(_, _, _)
FounderLoop(raw, seen_hrefs, founders) ==
    IF raw = << >> THEN founders
    ELSE LET href == Head(raw).href
             name == strip(Head(raw).name)
         IN  IF href \in seen_hrefs
             THEN FounderLoop(Tail(raw), seen_hrefs, founders)
             ELSE IF name_qualifies(name)
             THEN FounderLoop(Tail(raw), seen_hrefs \cup {href},
                              Append(founders, Founder(name, href)))
             ELSE FounderLoop(Tail(raw), seen_hrefs \cup {href}, founders)

\* lines 564-580: the names the two patterns find in the page text, each
\* taken once
RECURSIVE FallbackLoop(_, _, _)
FallbackLoop(names, seen_names, founders) ==
    IF names = << >> THEN founders
    ELSE LET name == Head(names)
         IN  IF name \notin seen_names
             THEN FallbackLoop(Tail(names), seen_names \cup {name},
                               Append(founders, Founder(name, << >>)))
             ELSE FallbackLoop(Tail(names), seen_names, founders)

\* _extract_founders, lines 518-585
extract_founders(raw, text_names) ==
    LET from_links == FounderLoop(raw, {}, << >>)
        founders == IF from_links = << >>
                    THEN FallbackLoop(text_names, {}, << >>)
                    ELSE from_links
    IN  SubSeq(founders, 1, Min(5, Len(founders)))

\* ---------------------------------------------------------------------
\* State
\* ---------------------------------------------------------------------
VARIABLES
    applications_csv,   \* data/applications.csv
    dry_runs_csv,       \* data/dry_runs.csv
    tracker,            \* the live ApplicationTracker object
    alive,              \* a tracker object exists
    fresh,              \* no record() since the tracker was constructed
    nrecords,           \* number of record() calls made so far
    ap,                 \* the running invocation of apply_to_job
    pc,                 \* position of run_main
    args,               \* dry_run, max_applications
    listing,            \* lines 148-168: show_seen, job_stubs, fresh_jobs
    company_list,       \* companies not yet offered, each with its stubs
    selection,          \* stubs of the current selection not yet processed
    job,                \* job_id of the job under review
    sent_count,
    user_quit,
    sentAtStart,        \* job_ids with a sent row in the live log at session start
    autoOnlyAtStart,    \* job_ids whose only rows at session start were auto-skips
    applyInvoked,       \* job_ids apply_to_job was invoked for in this session
    approvedReturned,   \* job_ids approved by the reviewer whose result was recorded
    write_failed,       \* a record() call of this session raised
    sent_produced,      \* SENT Applications apply_to_job returned in this session
    message,            \* the message shown at the review, and how it came about
    doc                 \* a scraped document and what the scraper makes of it

trackerVars == <<applications_csv, dry_runs_csv, tracker, alive, fresh, nrecords>>

sessionVars == <<pc, args, listing, company_list, selection, job,
                 sent_count, user_quit, sentAtStart, autoOnlyAtStart,
                 applyInvoked, approvedReturned, write_failed, sent_produced,
                 message, doc>>

loopVars == <<pc, args, listing, company_list, selection, job,
              sent_count, user_quit, sentAtStart, autoOnlyAtStart,
              applyInvoked, approvedReturned, write_failed, sent_produced,
              message>>

vars == <<applications_csv, dry_runs_csv, tracker, alive, fresh, nrecords, ap,
          pc, args, listing, company_list, selection, job,
          sent_count, user_quit, sentAtStart, autoOnlyAtStart,
          applyInvoked, approvedReturned, write_failed, sent_produced,
                 message, doc>>

Files == [apps |-> applications_csv, dry |-> dry_runs_csv]

LiveRows == DictReader(applications_csv)
DryRows == DictReader(dry_runs_csv)
TotalRows == Len(LiveRows) + Len(DryRows)

RowsOf(rows) == {rows[i] : i \in 1..Len(rows)}
AllRows == RowsOf(LiveRows) \cup RowsOf(DryRows)

NoArgs == [dry_run |-> FALSE, max_applications |-> 0]

\* no listing at hand: before the scrape, and once the stubs are grouped
\* (job_stubs and show_seen are not read again, fresh_jobs only for a printed total)
NoListing == [show_seen |-> FALSE, job_stubs |-> << >>, fresh_jobs |-> << >>]

InitLoop ==
    /\ pc = "idle"
    /\ args = NoArgs
    /\ listing = NoListing
    /\ company_list = << >>
    /\ selection = << >>
    /\ job = ""
    /\ sent_count = 0
    /\ user_quit = FALSE
    /\ sentAtStart = {}
    /\ autoOnlyAtStart = {}
    /\ applyInvoked = {}
    /\ approvedReturned = {}
    /\ write_failed = FALSE
    /\ sent_produced = 0
    /\ message = NoMessage

InitSession ==
    /\ InitLoop
    /\ doc = NoDoc

\* ---------------------------------------------------------------------
\* SpecTracker: the tracker through its public API
\* ---------------------------------------------------------------------
\* applications a caller can hand to record()
TrackerNotes == {NoNote, NoteUserSkipped, NoteLocationFiltered, NoteAlreadyApplied}

TrackerApplications ==
    {Application(j, s, n) : j \in JobIdsAll, s \in ApplicationStatus, n \in TrackerNotes}

InitTracker ==
    /\ applications_csv = << >>
    /\ dry_runs_csv = << >>
    /\ tracker = NoTracker
    /\ alive = FALSE
    /\ fresh = FALSE
    /\ nrecords = 0
    /\ ap = ApIdle
    /\ InitSession

\* ApplicationTracker(data_dir, dry_run): a new process loads both files
NewTracker(dry_run) ==
    /\ tracker' = NewTrackerState(dry_run, applications_csv, dry_runs_csv)
    /\ alive' = TRUE
    /\ fresh' = TRUE
    /\ UNCHANGED <<applications_csv, dry_runs_csv, nrecords, ap>>
    /\ UNCHANGED sessionVars

\* tracker.record(application)
Record(application) ==
    /\ alive
    /\ nrecords < MaxRecords
    /\ LET files == RecordFiles(tracker.dry_run, Files, application)
       IN  /\ applications_csv' = files.apps
           /\ dry_runs_csv' = files.dry
    /\ tracker' = RecordSets(tracker, application)
    /\ fresh' = FALSE
    /\ nrecords' = nrecords + 1
    /\ UNCHANGED <<alive, ap>>
    /\ UNCHANGED sessionVars

NextTracker ==
    \/ \E dry_run \in BOOLEAN : NewTracker(dry_run)
    \/ \E application \in TrackerApplications : Record(application)

SpecTracker == InitTracker /\ [][NextTracker]_vars

\* ---------------------------------------------------------------------
\* SpecApply: one invocation of apply_to_job on every page behaviour
\* ---------------------------------------------------------------------
InitApply ==
    /\ applications_csv = << >>
    /\ dry_runs_csv = << >>
    /\ tracker = NoTracker
    /\ alive = FALSE
    /\ fresh = FALSE
    /\ nrecords = 0
    /\ \E page \in PageBehaviours, dry_run \in BOOLEAN : ap = ApStart(page, dry_run)
    /\ InitSession

CheckAlreadyApplied ==
    /\ ap.pc = "check"
    /\ ap' = StepCheck(ap)
    /\ UNCHANGED <<trackerVars, sessionVars>>

ClickApply ==
    /\ ap.pc = "click_apply"
    /\ ap' = StepClickApply(ap)
    /\ UNCHANGED <<trackerVars, sessionVars>>

WaitModal ==
    /\ ap.pc = "wait_modal"
    /\ ap' = StepWaitModal(ap)
    /\ UNCHANGED <<trackerVars, sessionVars>>

FillMessage ==
    /\ ap.pc = "fill"
    /\ ap' = StepFill(ap)
    /\ UNCHANGED <<trackerVars, sessionVars>>

DryRunClose ==
    /\ ap.pc = "dry_run"
    /\ ap' = StepDryRun(ap)
    /\ UNCHANGED <<trackerVars, sessionVars>>

Submit ==
    /\ ap.pc = "submit"
    /\ ap' = StepSubmit(ap)
    /\ UNCHANGED <<trackerVars, sessionVars>>

SubmitFailed ==
    /\ ap.pc = "submit_failed"
    /\ ap' = StepSubmitFailed(ap)
    /\ UNCHANGED <<trackerVars, sessionVars>>

\* the caller invokes apply_to_job again on the page it is on
ApplyAgain ==
    /\ ap.pc = "done"
    /\ ap.calls < MaxCalls
    /\ ap' = ApAgain(ap)
    /\ UNCHANGED <<trackerVars, sessionVars>>

NextApply ==
    \/ ApplyAgain
    \/ CheckAlreadyApplied
    \/ ClickApply
    \/ WaitModal
    \/ FillMessage
    \/ DryRunClose
    \/ Submit
    \/ SubmitFailed

SpecApply == InitApply /\ [][NextApply]_vars

\* ---------------------------------------------------------------------
\* SpecClean: _clean_scraped_text applied to a text, then to its own result
\* ---------------------------------------------------------------------
\* pieces of page text: a line break, a blank, nav chrome, a tag, short
\* words, prose
Chunks == {
    <<"\n">>,
    <<" ">>,
    <<"P", "r", "i", "v", "a", "c", "y">>,
    <<"Y", " ", "C", "o", "m", "b", "i", "n", "a", "t", "o", "r">>,
    <<"R", "e", "m", "o", "t", "e">>,
    <<"B", "a", "c", "k", "e", "n", "d">>,
    <<"C", "+", "+">>,
    <<"W", "e", " ", "b", "u", "i", "l", "d", " ", "t", "o", "o", "l", "s", " ", "f", "o", "r", " ", "X", ".">>,
    <<"I", "n", "t", "e", "r", "n", "a", "t", "i", "o", "n", "a", "l", "i", "z", "e", "d">>}

RECURSIVE Concat(_)
Concat(chunks) == IF chunks = << >> THEN << >> ELSE Head(chunks) \o Concat(Tail(chunks))

Texts == {Concat(cs) : cs \in UNION {[1..n -> Chunks] : n \in 0..MaxChunks}}

InitQuiet ==
    /\ applications_csv = << >>
    /\ dry_runs_csv = << >>
    /\ tracker = NoTracker
    /\ alive = FALSE
    /\ fresh = FALSE
    /\ nrecords = 0
    /\ ap = ApIdle
    /\ InitLoop

InitClean ==
    /\ InitQuiet
    /\ \E text \in Texts : doc = [kind |-> "text", text |-> text]

CleanOnce ==
    /\ doc.kind = "text"
    /\ doc' = [kind |-> "cleaned", text |-> doc.text,
               once |-> clean_scraped_text(doc.text)]
    /\ UNCHANGED <<trackerVars, ap, loopVars>>

CleanAgain ==
    /\ doc.kind = "cleaned"
    /\ doc' = [kind |-> "recleaned", text |-> doc.text, once |-> doc.once,
               twice |-> clean_scraped_text(doc.once)]
    /\ UNCHANGED <<trackerVars, ap, loopVars>>

NextClean ==
    \/ CleanOnce
    \/ CleanAgain

SpecClean == InitClean /\ [][NextClean]_vars

\* ---------------------------------------------------------------------
\* SpecExtract: the section fields scrape_job_detail reads from a page text
\* ---------------------------------------------------------------------
\* lines of a job page: headings, prose, a colon heading, an empty line
DocLines == {
    <<"A", "b", "o", "u", "t">>,
    <<"W", "e", " ", "b", "u", "i", "l", "d", " ", "t", "o", "o", "l", "s", " ", "f", "o", "r", " ", "X", ".">>,
    <<"R", "e", "q", "u", "i", "r", "e", "m", "e", "n", "t", "s">>,
    <<"5", " ", "y", "e", "a", "r", "s", ".">>,
    <<"5", " ", "y", "e", "a", "r", "s", " ", "o", "f", " ", "P", "y", "t", "h", "o", "n", ".">>,
    <<"S", "k", "i", "l", "l", "s", ":", " ", "G", "o", " ", "a", "n", "d", " ", "R", "u", "s", "t", ".">>,
    <<>>}

Documents == {join(ls, "\n") : ls \in UNION {[1..n -> DocLines] : n \in 1..MaxDocLines}}

InitExtract ==
    /\ InitQuiet
    /\ \E text \in Documents : doc = [kind |-> "page", text |-> text]

\* lines 238-242
ExtractCompanyDescription ==
    /\ doc.kind = "page"
    /\ doc' = [kind |-> "described", text |-> doc.text,
               company_description |-> company_description_of(doc.text)]
    /\ UNCHANGED <<trackerVars, ap, loopVars>>

\* lines 250-254
ExtractRequirements ==
    /\ doc.kind = "described"
    /\ doc' = [kind |-> "detailed", text |-> doc.text,
               company_description |-> doc.company_description,
               requirements |-> requirements_of(doc.text)]
    /\ UNCHANGED <<trackerVars, ap, loopVars>>

NextExtract ==
    \/ ExtractCompanyDescription
    \/ ExtractRequirements

SpecExtract == InitExtract /\ [][NextExtract]_vars

\* ---------------------------------------------------------------------
\* SpecFounders: _extract_founders over the profile links of a page
\* ---------------------------------------------------------------------
\* a link text that passes the tests, with blanks around it
FounderName == <<" ", "A", "d", "a", " ", "L", "o", "v", "e", "l", "a", "c", "e", " ">>

\* link texts that fail them: a junk name, a short one, a word with a dot,
\* one word, five words, a junk name inside a longer text
RejectedNames == <<
    <<"V", "i", "e", "w", " ", "p", "r", "o", "f", "i", "l", "e">>,
    <<"A", "l">>,
    <<"G", "r", "a", "c", "e", " ", "B", ".", " ", "H", "o", "p", "p", "e", "r">>,
    <<"F", "o", "u", "n", "d", "e", "r", "s">>,
    <<"J", "e", "a", "n", " ", "L", "u", "c", " ", "M", "a", "r", "i", "e", " ", "A", "n", "n", "e", " ", "P", "i", "c", "a", "r", "d">>,
    <<"F", "o", "l", "l", "o", "w", " ", "A", "d", "a", " ", "L", "o", "v", "e", "l", "a", "c", "e">>>>

\* the i-th link points at its own profile or at the first link's profile
LinkHrefs(i) == {i, 1}

LinkNames(i) == {FounderName, RejectedNames[((i - 1) % Len(RejectedNames)) + 1]}

\* the links the i-th anchor of the page can be
LinksAt(i) == {[href |-> h, name |-> nm] : h \in LinkHrefs(i), nm \in LinkNames(i)}

RECURSIVE LinkListsOf(_)
LinkListsOf(n) ==
    IF n = 0 THEN {<< >>}
    ELSE {Append(raw, l) : raw \in LinkListsOf(n - 1), l \in LinksAt(n)}

LinkLists == UNION {LinkListsOf(n) : n \in 0..MaxLinks}

\* names the two patterns find in the page text: none, or seven with a repeat
TextNames == {<< >>, <<"n1", "n2", "n1", "n3", "n4", "n5", "n6">>}

InitFounders ==
    /\ InitQuiet
    /\ \E raw \in LinkLists, text_names \in TextNames :
           doc = [kind |-> "links", raw |-> raw, text_names |-> text_names]

\* lines 531-585, page.evaluate returning the links
ExtractFounders ==
    /\ doc.kind = "links"
    /\ doc' = [kind |-> "founders", raw |-> doc.raw, text_names |-> doc.text_names,
               founders |-> extract_founders(doc.raw, doc.text_names)]
    /\ UNCHANGED <<trackerVars, ap, loopVars>>

\* lines 582-585, page.evaluate raising: the except clause, no founders
ExtractFoundersRaises ==
    /\ doc.kind = "links"
    /\ doc' = [kind |-> "founders_failed", raw |-> doc.raw,
               text_names |-> doc.text_names, founders |-> << >>]
    /\ UNCHANGED <<trackerVars, ap, loopVars>>

NextFounders ==
    \/ ExtractFounders
    \/ ExtractFoundersRaises

SpecFounders == InitFounders /\ [][NextFounders]_vars

\* ---------------------------------------------------------------------
\* SpecDiscover: scrape_job_listings over the job links of a listing page
\* ---------------------------------------------------------------------
\* the job links of the page, each as the job_id _extract_job_id derives
\* from its href ("" when the href has no id)
ListingLinks == UNION {[1..n -> JobIdsAll] : n \in 0..MaxRawLinks}

InitDiscover ==
    /\ InitQuiet
    /\ \E raw_stubs \in ListingLinks, max_jobs \in 1..MaxJobsArg :
           doc = [kind |-> "listing_page", raw_stubs |-> raw_stubs, max_jobs |-> max_jobs]

\* scraper.py lines 27-159
ScrapeJobListings ==
    /\ doc.kind = "listing_page"
    /\ doc' = [kind |-> "stubs", raw_stubs |-> doc.raw_stubs, max_jobs |-> doc.max_jobs,
               jobs |-> scrape_job_listings(doc.raw_stubs, doc.max_jobs)]
    /\ UNCHANGED <<trackerVars, ap, loopVars>>

NextDiscover ==
    \/ ScrapeJobListings

SpecDiscover == InitDiscover /\ [][NextDiscover]_vars

\* ---------------------------------------------------------------------
\* SpecRetry: the wrapper of retry_async around generate_message, one
\* statement at a time
\* ---------------------------------------------------------------------
\* what an attempt of generate_message does: returns a message or raises
GenValues == {"m1", "m2"}
GenErrors == {"e1", "e2"}
GenOutcomes == [1..max_retries -> GenValues \cup GenErrors]

\* the wrapper at its start, lines 52-53
InitRetry ==
    /\ InitQuiet
    /\ \E outcomes \in GenOutcomes :
           doc = [kind |-> "retry", pc |-> "call", outcomes |-> outcomes, attempt |-> 0,
                  calls |-> 0, sleeps |-> << >>, last_error |-> "", result |-> ""]

\* lines 54-56: an attempt that returns
RetryAttemptReturns ==
    /\ doc.kind = "retry"
    /\ doc.pc = "call"
    /\ doc.attempt < max_retries
    /\ doc.outcomes[doc.attempt + 1] \in GenValues
    /\ doc' = [doc EXCEPT !.pc = "returned", !.calls = @ + 1,
                          !.result = doc.outcomes[doc.attempt + 1]]
    /\ UNCHANGED <<trackerVars, ap, loopVars>>

\* lines 54-59: an attempt that raises
RetryAttemptRaises ==
    /\ doc.kind = "retry"
    /\ doc.pc = "call"
    /\ doc.attempt < max_retries
    /\ doc.outcomes[doc.attempt + 1] \in GenErrors
    /\ doc' = [doc EXCEPT !.calls = @ + 1,
                          !.last_error = doc.outcomes[doc.attempt + 1],
                          !.pc = IF doc.attempt < max_retries - 1 THEN "sleep" ELSE "call",
                          !.attempt = IF doc.attempt < max_retries - 1 THEN @ ELSE @ + 1]
    /\ UNCHANGED <<trackerVars, ap, loopVars>>

\* lines 59-64: the wait before the next attempt
RetrySleep ==
    /\ doc.kind = "retry"
    /\ doc.pc = "sleep"
    /\ doc' = [doc EXCEPT !.sleeps = Append(@, backoff_wait(doc.attempt)),
                          !.attempt = @ + 1, !.pc = "call"]
    /\ UNCHANGED <<trackerVars, ap, loopVars>>

\* line 66: the loop is over, raise last_error
RetryRaise ==
    /\ doc.kind = "retry"
    /\ doc.pc = "call"
    /\ doc.attempt >= max_retries
    /\ doc' = [doc EXCEPT !.pc = "raised", !.result = doc.last_error]
    /\ UNCHANGED <<trackerVars, ap, loopVars>>

NextRetry ==
    \/ RetryAttemptReturns
    \/ RetryAttemptRaises
    \/ RetrySleep
    \/ RetryRaise

SpecRetry == InitRetry /\ [][NextRetry]_vars

\* ---------------------------------------------------------------------
\* SpecGather: the fan-out of main.py lines 261-300 for one job, the two
\* coroutines of asyncio.gather as tasks that run whenever run_main awaits
\* ---------------------------------------------------------------------
\* what the summarization call can give back for a job with text
Summaries == {"summary_a", "summary_b"}

GenTaskStart == [pc |-> "call", attempt |-> 0]
SumTaskStart == [pc |-> "start", value |-> "", failed |-> FALSE]

\* main.py line 263: gather wraps both coroutines in tasks
InitGather ==
    /\ InitQuiet
    /\ \E has_text \in BOOLEAN, j \in JobIds :
           doc = [kind |-> "fanout", pc |-> "gather", job_id |-> j, has_text |-> has_text,
                  gen |-> GenTaskStart, sum |-> SumTaskStart,
                  message |-> "", about_summary |-> "", decision |-> ""]

\* the event loop runs a task only while run_main is suspended at an await;
\* reviewer.review is a plain call that blocks on input()
TasksCanRun == doc.kind = "fanout" /\ doc.pc # "review"

SetDoc(d) == doc' = d /\ UNCHANGED <<trackerVars, ap, loopVars>>

\* ai.py lines 198-207: no text to summarize, return at once; otherwise
\* go on to the API call of line 223
SumStart ==
    /\ TasksCanRun
    /\ doc.sum.pc = "start"
    /\ SetDoc([doc EXCEPT !.sum.pc = IF doc.has_text THEN "call" ELSE "returned"])

\* ai.py lines 223-241: the call returns and the summaries are parsed
SumCallReturns(value) ==
    /\ TasksCanRun
    /\ doc.sum.pc = "call"
    /\ SetDoc([doc EXCEPT !.sum.pc = "returned", !.sum.value = value])

\* ai.py lines 242-244: the call raises, empty summaries are returned
SumCallFails ==
    /\ TasksCanRun
    /\ doc.sum.pc = "call"
    /\ SetDoc([doc EXCEPT !.sum.pc = "returned", !.sum.value = "", !.sum.failed = TRUE])

\* utils.py lines 54-56: an attempt of generate_message returns
GenAttemptReturns ==
    /\ TasksCanRun
    /\ doc.gen.pc = "call"
    /\ SetDoc([doc EXCEPT !.gen.pc = "returned"])

\* utils.py lines 57-66: an attempt raises; sleep, or raise after the last
GenAttemptRaises ==
    /\ TasksCanRun
    /\ doc.gen.pc = "call"
    /\ SetDoc([doc EXCEPT !.gen.pc = IF doc.gen.attempt < max_retries - 1
                                     THEN "sleep" ELSE "raised"])

\* utils.py line 64: the sleep is over, next attempt
GenWake ==
    /\ TasksCanRun
    /\ doc.gen.pc = "sleep"
    /\ SetDoc([doc EXCEPT !.gen.pc = "call", !.gen.attempt = @ + 1])

\* main.py lines 263-272: both tasks returned, gather gives their results
GatherReturns ==
    /\ doc.kind = "fanout"
    /\ doc.pc = "gather"
    /\ doc.gen.pc = "returned"
    /\ doc.sum.pc = "returned"
    /\ SetDoc([doc EXCEPT !.pc = "review", !.message = "generated",
                          !.about_summary = doc.sum.value])

\* main.py lines 273-275: gather raises as soon as generate_message has
\* raised (return_exceptions is not set), whatever the other task does
GatherRaises ==
    /\ doc.kind = "fanout"
    /\ doc.pc = "gather"
    /\ doc.gen.pc = "raised"
    /\ SetDoc([doc EXCEPT !.pc = "review", !.message = "fallback"])

\* main.py lines 278-300: the review, then the apply flow or the next job
ReviewDecides(decision) ==
    /\ doc.kind = "fanout"
    /\ doc.pc = "review"
    /\ SetDoc([doc EXCEPT !.pc = IF decision = "approve" THEN "apply" ELSE "next",
                          !.decision = decision])

\* main.py lines 297-300: apply_to_job has returned
ApplyFlowEnds ==
    /\ doc.kind = "fanout"
    /\ doc.pc = "apply"
    /\ SetDoc([doc EXCEPT !.pc = "next"])

NextGather ==
    \/ SumStart
    \/ \E value \in Summaries \cup {""} : SumCallReturns(value)
    \/ SumCallFails
    \/ GenAttemptReturns
    \/ GenAttemptRaises
    \/ GenWake
    \/ GatherReturns
    \/ GatherRaises
    \/ \E decision \in {"approve", "skip", "quit"} : ReviewDecides(decision)
    \/ ApplyFlowEnds

SpecGather == InitGather /\ [][NextGather]_vars

\* ---------------------------------------------------------------------
\* SpecJob: the body of the job loop, main.py lines 217-306, for one stub
\* ---------------------------------------------------------------------
\* job.location as scrape_job_detail can leave it
JobLocations == {
    <<>>,
    <<"B", "e", "r", "l", "i", "n">>,
    <<"S", "a", "n", " ", "F", "r", "a", "n", "c", "i", "s", "c", "o">>,
    <<"R", "E", "M", "O", "T", "E", " ", "(", "U", "S", ")">>,
    <<"L", "o", "n", "d", "o", "n", ",", " ", "U", "K">>}

\* config.search_filters.allowed_locations; the default is the empty list
AllowLists == {
    <<>>,
    <<<<"s", "a", "n", " ", "f", "r", "a", "n", "c", "i", "s", "c", "o">>, <<"R", "e", "m", "o", "t", "e">>>>,
    <<<<"U", "S">>>>,
    <<<<"b", "e", "r", "l", "i", "n">>, <<"l", "o", "n", "d", "o", "n">>>>}

\* main.py lines 234-237: the job is outside the allowed locations
location_filtered(allowed, location) ==
    /\ allowed # << >>
    /\ location # << >>
    /\ LET location_lower == lower(location)
       IN  ~\E i \in 1..Len(allowed) : Contains(location_lower, lower(allowed[i]))

\* main.py line 244: the note of the auto-skip
location_note(location) == <<"location_filtered", ": ">> \o location

InitJob ==
    /\ InitQuiet
    /\ \E allowed \in AllowLists, location \in JobLocations, job_number \in 0..1,
          j \in JobIds :
           doc = [kind |-> "job", pc |-> "filter", job_id |-> j, allowed |-> allowed,
                  location |-> location, job_number |-> job_number, shown_before |-> job_number,
                  sent_count |-> 0, rows |-> << >>, write_failed |-> FALSE,
                  generated |-> FALSE, reviewed |-> FALSE, applied |-> FALSE]

\* tracker.record from the job body: the row is appended, or record raises
\* and the except of lines 304-306 ends the job
JobRecord(d, status, notes, writes) ==
    IF writes
    THEN [d EXCEPT !.rows = Append(@, Application(d.job_id, status, notes)), !.pc = "next"]
    ELSE [d EXCEPT !.write_failed = TRUE, !.pc = "next"]

\* JobFilterLocation without the continue of line 246
JobFilterLocation_FallsThrough(writes) ==
    /\ doc.kind = "job"
    /\ doc.pc = "filter"
    /\ IF location_filtered(doc.allowed, doc.location)
       THEN SetDoc([JobRecord(doc, SKIPPED, location_note(doc.location), writes)
                        EXCEPT !.pc = IF writes THEN "onsite" ELSE "next"])
       ELSE SetDoc([doc EXCEPT !.pc = "onsite"])

\* main.py lines 232-246
JobFilterLocation(writes) ==
    /\ doc.kind = "job"
    /\ doc.pc = "filter"
    /\ IF location_filtered(doc.allowed, doc.location)
       THEN SetDoc(JobRecord(doc, SKIPPED, location_note(doc.location), writes))
       ELSE SetDoc([doc EXCEPT !.pc = "onsite"])

\* main.py lines 248-259
JobOnSiteCheck(already, writes) ==
    /\ doc.kind = "job"
    /\ doc.pc = "onsite"
    /\ IF already
       THEN SetDoc(JobRecord(doc, SKIPPED, NoteAlreadyApplied, writes))
       ELSE SetDoc([doc EXCEPT !.job_number = @ + 1, !.pc = "generate"])

\* main.py lines 261-275
JobGenerate(attempts) ==
    /\ doc.kind = "job"
    /\ doc.pc = "generate"
    /\ SetDoc([doc EXCEPT !.generated = TRUE, !.pc = "review"])
    /\ gather_message(attempts).text \in {"generated", "fallback"}

\* main.py lines 277-294
JobReview(decision, writes) ==
    /\ doc.kind = "job"
    /\ doc.pc = "review"
    /\ LET d == [doc EXCEPT !.reviewed = TRUE]
       IN  CASE decision = "quit" -> SetDoc([d EXCEPT !.pc = "quit"])
             [] decision = "skip" -> SetDoc(JobRecord(d, SKIPPED, NoteUserSkipped, writes))
             [] OTHER -> SetDoc([d EXCEPT !.pc = "apply"])

\* main.py lines 295-300 and 304-306
JobApply(result, writes) ==
    /\ doc.kind = "job"
    /\ doc.pc = "apply"
    /\ result \in ApplyResultsLive
    /\ LET d == [doc EXCEPT !.applied = TRUE]
       IN  IF result.kind = "application"
           THEN LET r == JobRecord(d, result.status, result.notes, writes)
                IN  SetDoc([r EXCEPT !.sent_count =
                                IF writes /\ result.status = SENT THEN @ + 1 ELSE @])
           ELSE SetDoc([d EXCEPT !.pc = "next"])

NextJob ==
    \/ \E writes \in BOOLEAN : JobFilterLocation(writes)
    \/ \E already, writes \in BOOLEAN : JobOnSiteCheck(already, writes)
    \/ \E attempts \in GenAttempts : JobGenerate(attempts)
    \/ \E decision \in {"approve", "skip", "quit"}, writes \in BOOLEAN : JobReview(decision, writes)
    \/ \E result \in ApplyResultsLive, writes \in BOOLEAN : JobApply(result, writes)

SpecJob == InitJob /\ [][NextJob]_vars

\* ---------------------------------------------------------------------
\* Spec: run_main, session after session over the same two files
\* ---------------------------------------------------------------------
Init ==
    /\ applications_csv = << >>
    /\ dry_runs_csv = << >>
    /\ tracker = NoTracker
    /\ alive = FALSE
    /\ fresh = FALSE
    /\ nrecords = 0
    /\ ap = ApIdle
    /\ InitSession

SentInLive(j) == \E row \in RowsOf(LiveRows) : row.job_id = j /\ row.status = SENT

IsAutoSkipRow(row) == row.status = SKIPPED /\ is_auto_skip(row.notes)

OnlyAutoSkips(j) ==
    /\ \E row \in AllRows : row.job_id = j
    /\ \A row \in AllRows : row.job_id = j => IsAutoSkipRow(row)

\* tracker.record(application) as called from run_main
DoRecord(application) ==
    /\ nrecords < MaxSessionRecords
    /\ LET files == RecordFiles(tracker.dry_run, Files, application)
       IN  /\ applications_csv' = files.apps
           /\ dry_runs_csv' = files.dry
    /\ tracker' = RecordSets(tracker, application)
    /\ fresh' = FALSE
    /\ nrecords' = nrecords + 1
    /\ UNCHANGED alive

\* lines 110-168: construct the tracker, log in, scrape the listing, filter
StartSession(dry_run, show_seen, max_applications, raw_stubs) ==
    /\ pc = "idle"
    /\ LET t == NewTrackerState(dry_run, applications_csv, dry_runs_csv)
           stubs == scrape_job_listings(raw_stubs, max_applications * 3)
           fresh_stubs == FilterStubs(stubs, t, show_seen)
       IN  /\ tracker' = t
           /\ listing' = [show_seen |-> show_seen, job_stubs |-> stubs,
                          fresh_jobs |-> fresh_stubs]
           /\ pc' = IF stubs = << >> \/ fresh_stubs = << >> THEN "closing" ELSE "filtered"
    /\ alive' = TRUE
    /\ fresh' = TRUE
    /\ args' = [dry_run |-> dry_run, max_applications |-> max_applications]
    /\ sentAtStart' = {j \in JobIds : SentInLive(j)}
    /\ autoOnlyAtStart' = {j \in JobIds : OnlyAutoSkips(j)}
    /\ UNCHANGED <<applications_csv, dry_runs_csv, nrecords, ap, company_list,
                   selection, job, sent_count, user_quit, applyInvoked,
                   approvedReturned,
                   write_failed, sent_produced, message, doc>>

\* lines 126-131: the tracker is built, then login fails and run_main returns
LoginFailed(dry_run, max_applications) ==
    /\ pc = "idle"
    /\ tracker' = NewTrackerState(dry_run, applications_csv, dry_runs_csv)
    /\ alive' = TRUE
    /\ fresh' = TRUE
    /\ args' = [dry_run |-> dry_run, max_applications |-> max_applications]
    /\ sentAtStart' = {j \in JobIds : SentInLive(j)}
    /\ autoOnlyAtStart' = {j \in JobIds : OnlyAutoSkips(j)}
    /\ pc' = "closing"
    /\ UNCHANGED <<applications_csv, dry_runs_csv, nrecords, ap, listing,
                   company_list, selection, job, sent_count, user_quit,
                   applyInvoked, approvedReturned,
                   write_failed, sent_produced, message, doc>>

\* lines 170-191: group the fresh stubs by company, set up the loop
GroupCompanies(company_of) ==
    /\ pc = "filtered"
    /\ company_list' = company_groups(listing.fresh_jobs, company_of)
    /\ listing' = NoListing
    /\ autoOnlyAtStart' = {}
    /\ sent_count' = 0
    /\ user_quit' = FALSE
    /\ pc' = "company"
    /\ UNCHANGED <<trackerVars, ap, args, selection, job, sentAtStart,
                   applyInvoked, approvedReturned,
                   write_failed, sent_produced, message, doc>>

\* lines 308-324: the summary is printed, the browser closed, and the process
\* ends, its objects with it
EndSession ==
    /\ alive' = FALSE
    /\ tracker' = NoTracker
    /\ fresh' = FALSE
    /\ pc' = "idle"
    /\ args' = NoArgs
    /\ listing' = NoListing
    /\ company_list' = << >>
    /\ selection' = << >>
    /\ job' = ""
    /\ sent_count' = 0
    /\ user_quit' = FALSE
    /\ sentAtStart' = {}
    /\ autoOnlyAtStart' = {}
    /\ applyInvoked' = {}
    /\ write_failed' = FALSE
    /\ sent_produced' = 0
    /\ message' = NoMessage
    /\ UNCHANGED <<applications_csv, dry_runs_csv, nrecords, ap,
                   approvedReturned, doc>>

\* CompanyLoopRuns that does not look at user_quit
CompanyLoopRuns_IgnoreQuit ==
    /\ pc = "company"
    /\ company_list # << >>
    /\ ~(sent_count >= args.max_applications)

CompanyLoopRuns ==
    /\ pc = "company"
    /\ company_list # << >>
    /\ ~(user_quit \/ sent_count >= args.max_applications)

\* lines 193-195 and the end of the for loop, then lines 308-324
CompanyLoopExit ==
    /\ pc = "company"
    /\ ~CompanyLoopRuns
    /\ EndSession

\* lines 205-207, then lines 308-324
PickQuit ==
    /\ CompanyLoopRuns
    /\ EndSession

\* lines 208-210
PickSkip ==
    /\ CompanyLoopRuns
    /\ company_list' = Tail(company_list)
    /\ UNCHANGED <<trackerVars, ap, pc, args, listing,
                   selection, job, sent_count, user_quit, sentAtStart,
                   autoOnlyAtStart, applyInvoked, approvedReturned,
                   write_failed, sent_produced, message, doc>>

\* lines 198-213: the picker returns a list of stubs
PickSelect(chosen) ==
    /\ CompanyLoopRuns
    /\ chosen \in PickSelections(Head(company_list))
    /\ company_list' = Tail(company_list)
    /\ selection' = chosen
    /\ pc' = "job"
    /\ UNCHANGED <<trackerVars, ap, args, listing,
                   job, sent_count, user_quit, sentAtStart,
                   autoOnlyAtStart, applyInvoked, approvedReturned,
                   write_failed, sent_produced, message, doc>>

\* the picker raises (input closed): nothing catches it, lines 322-324 run
PickRaises ==
    /\ CompanyLoopRuns
    /\ EndSession

JobLoopRuns ==
    /\ pc = "job"
    /\ selection # << >>
    /\ sent_count < args.max_applications

\* lines 213-215 and the end of the inner for loop
JobLoopExit ==
    /\ pc = "job"
    /\ ~JobLoopRuns
    /\ pc' = "company"
    /\ selection' = << >>
    /\ UNCHANGED <<trackerVars, ap, args, listing, company_list,
                   job, sent_count, user_quit, sentAtStart,
                   autoOnlyAtStart, applyInvoked, approvedReturned,
                   write_failed, sent_produced, message, doc>>

\* JobRaises whose exception leaves the loops: lines 308-324 run at once
JobRaises_Propagates ==
    /\ JobLoopRuns
    /\ EndSession

\* lines 217-283 raise before the review returns (detail scrape, fallback
\* generation): lines 304-306 log and continue
JobRaises ==
    /\ JobLoopRuns
    /\ selection' = Tail(selection)
    /\ UNCHANGED <<trackerVars, ap, pc, args, listing, company_list,
                   job, sent_count, user_quit, sentAtStart,
                   autoOnlyAtStart, applyInvoked, approvedReturned,
                   write_failed, sent_produced, message, doc>>

\* lines 232-246
LocationFiltered ==
    /\ JobLoopRuns
    /\ DoRecord(Application(Head(selection), SKIPPED, NoteLocationFiltered))
    /\ selection' = Tail(selection)
    /\ UNCHANGED <<ap, pc, args, listing, company_list,
                   job, sent_count, user_quit, sentAtStart,
                   autoOnlyAtStart, applyInvoked, approvedReturned,
                   write_failed, sent_produced, message, doc>>

\* lines 248-256
AlreadyAppliedOnSite ==
    /\ JobLoopRuns
    /\ DoRecord(Application(Head(selection), SKIPPED, NoteAlreadyApplied))
    /\ selection' = Tail(selection)
    /\ UNCHANGED <<ap, pc, args, listing, company_list,
                   job, sent_count, user_quit, sentAtStart,
                   autoOnlyAtStart, applyInvoked, approvedReturned,
                   write_failed, sent_produced, message, doc>>

\* lines 258-283: the job is shown for review
ShowForReview(attempts) ==
    /\ JobLoopRuns
    /\ job' = Head(selection)
    /\ selection' = Tail(selection)
    /\ pc' = "review"
    /\ UNCHANGED <<trackerVars, ap, args, listing, company_list,
                   sent_count, user_quit, sentAtStart,
                   autoOnlyAtStart, applyInvoked, approvedReturned,
                   write_failed, sent_produced, doc>>
    /\ message' = gather_message(attempts)

\* lines 285-288
ReviewQuit ==
    /\ pc = "review"
    /\ user_quit' = TRUE
    /\ selection' = << >>
    /\ pc' = "company"
    /\ UNCHANGED <<trackerVars, ap, args, listing, company_list,
                   job, sent_count, sentAtStart,
                   autoOnlyAtStart, applyInvoked, approvedReturned,
                   write_failed, sent_produced, doc>>
    /\ message' = NoMessage

\* lines 289-294
ReviewSkip ==
    /\ pc = "review"
    /\ DoRecord(Application(job, SKIPPED, NoteUserSkipped))
    /\ pc' = "job"
    /\ UNCHANGED <<ap, args, listing, company_list, selection,
                   job, sent_count, user_quit, sentAtStart,
                   autoOnlyAtStart, applyInvoked, approvedReturned,
                   write_failed, sent_produced, doc>>
    /\ message' = NoMessage

\* lines 295-300: approve, apply_to_job returns an Application, record it
ReviewApprove(result) ==
    /\ pc = "review"
    /\ result \in (IF args.dry_run THEN ApplyResultsDry ELSE ApplyResultsLive)
    /\ result.kind = "application"
    /\ applyInvoked' = applyInvoked \cup {job}
    /\ DoRecord(Application(job, result.status, result.notes))
    /\ sent_count' = IF result.status = SENT THEN sent_count + 1 ELSE sent_count
    /\ sent_produced' = IF result.status = SENT THEN sent_produced + 1 ELSE sent_produced
    /\ approvedReturned' = approvedReturned \cup {job}
    /\ pc' = "job"
    /\ UNCHANGED <<ap, args, listing, company_list, selection,
                   job, user_quit, sentAtStart, autoOnlyAtStart,
                   write_failed, doc>>
    /\ message' = NoMessage

\* lines 295-297 and 304-306: approve, apply_to_job raises, log and continue
ReviewApproveRaises(result) ==
    /\ pc = "review"
    /\ result \in (IF args.dry_run THEN ApplyResultsDry ELSE ApplyResultsLive)
    /\ result.kind = "raise"
    /\ applyInvoked' = applyInvoked \cup {job}
    /\ pc' = "job"
    /\ UNCHANGED <<trackerVars, ap, args, listing, company_list,
                   selection, job, sent_count, user_quit, sentAtStart,
                   autoOnlyAtStart, approvedReturned,
                   write_failed, sent_produced, doc>>
    /\ message' = NoMessage

\* the review itself raises: lines 304-306
ReviewRaises ==
    /\ pc = "review"
    /\ pc' = "job"
    /\ UNCHANGED <<trackerVars, ap, args, listing, company_list,
                   selection, job, sent_count, user_quit, sentAtStart,
                   autoOnlyAtStart, applyInvoked, approvedReturned,
                   write_failed, sent_produced, doc>>
    /\ message' = NoMessage

\* lines 242-246 or 251-255: record() raises while it opens or writes the log
\* (nothing is appended, the sets are not updated); lines 304-306 log and go on
AutoSkipWriteFails ==
    /\ JobLoopRuns
    /\ selection' = Tail(selection)
    /\ write_failed' = TRUE
    /\ UNCHANGED <<trackerVars, ap, pc, args, listing, company_list,
                   job, sent_count, user_quit, sentAtStart,
                   autoOnlyAtStart, applyInvoked, approvedReturned,
                   sent_produced, message, doc>>

\* lines 289-293: record() raises for the user's skip; lines 304-306
ReviewSkipWriteFails ==
    /\ pc = "review"
    /\ pc' = "job"
    /\ write_failed' = TRUE
    /\ UNCHANGED <<trackerVars, ap, args, listing, company_list,
                   selection, job, sent_count, user_quit, sentAtStart,
                   autoOnlyAtStart, applyInvoked, approvedReturned,
                   sent_produced, doc>>
    /\ message' = NoMessage

\* lines 297-298: apply_to_job returns an Application and record() raises for
\* it, before line 299 counts a SENT; lines 304-306
ReviewApproveWriteFails(result) ==
    /\ pc = "review"
    /\ result \in (IF args.dry_run THEN ApplyResultsDry ELSE ApplyResultsLive)
    /\ result.kind = "application"
    /\ applyInvoked' = applyInvoked \cup {job}
    /\ sent_produced' = IF result.status = SENT THEN sent_produced + 1 ELSE sent_produced
    /\ write_failed' = TRUE
    /\ pc' = "job"
    /\ UNCHANGED <<trackerVars, ap, args, listing, company_list,
                   selection, job, sent_count, user_quit, sentAtStart,
                   autoOnlyAtStart, approvedReturned, doc>>
    /\ message' = NoMessage

\* an early return of run_main (lines 131, 155, 168), then lines 322-324
Cleanup ==
    /\ pc = "closing"
    /\ EndSession

Next ==
    \/ \E dry_run \in BOOLEAN, show_seen \in BOOLEAN, max_applications \in Budgets,
          raw_stubs \in RawLinks :
            StartSession(dry_run, show_seen, max_applications, raw_stubs)
    \/ \E dry_run \in BOOLEAN, max_applications \in Budgets :
            LoginFailed(dry_run, max_applications)
    \/ \E company_of \in [JobIds -> Companies] : GroupCompanies(company_of)
    \/ CompanyLoopExit
    \/ PickQuit
    \/ PickSkip
    \/ \E chosen \in UNION {[1..n -> JobIds] : n \in 1..MaxPick} : PickSelect(chosen)
    \/ PickRaises
    \/ JobLoopExit
    \/ JobRaises
    \/ LocationFiltered
    \/ AlreadyAppliedOnSite
    \/ \E attempts \in GenAttempts : ShowForReview(attempts)
    \/ ReviewQuit
    \/ ReviewSkip
    \/ \E result \in ApplyResultsLive \cup ApplyResultsDry : ReviewApprove(result)
    \/ \E result \in ApplyResultsLive \cup ApplyResultsDry : ReviewApproveRaises(result)
    \/ ReviewRaises
    \/ AutoSkipWriteFails
    \/ ReviewSkipWriteFails
    \/ \E result \in ApplyResultsLive \cup ApplyResultsDry : ReviewApproveWriteFails(result)
    \/ Cleanup

Spec == Init /\ [][Next]_vars

\* ---------------------------------------------------------------------
\* Properties
\* ---------------------------------------------------------------------
IsPrefix(s, t) == Len(s) <= Len(t) /\ SubSeq(t, 1, Len(s)) = s

SentCount(rows, j) ==
    Cardinality({i \in 1..Len(rows) : rows[i].job_id = j /\ rows[i].status = SENT})

\* C1: a job_id with a sent row in the live log when a session starts is never
\* handed to apply_to_job in that session, in normal and in --show-seen mode
\* alike, and the session appends no further sent row for it.
C1_SentNeverReapplied ==
    /\ [](alive => \A j \in sentAtStart : j \notin applyInvoked)
    /\ [][\A j \in sentAtStart :
            SentCount(DictReader(applications_csv'), j) = SentCount(LiveRows, j)]_vars

C1_Witness ==
    /\ pc = "filtered"
    /\ listing.show_seen
    /\ \E j \in sentAtStart :
        /\ j \in Range(listing.job_stubs)
        /\ j \notin Range(listing.fresh_jobs)

HumanEvaluatedRow(row) ==
    \/ row.status = DRY_RUN
    \/ row.status = SKIPPED /\ ~is_auto_skip(row.notes)

\* C3 as stated: right after a load, has_seen(j) holds exactly when some row of
\* either log for j is a dry_run row or a skipped row without an auto-skip
\* prefix; rows of any other status do not make j seen.
C3_SeenIffHumanEvaluated ==
    (alive /\ fresh) =>
        \A j \in JobIds :
            has_seen(tracker, j) <=>
                \E row \in AllRows : row.job_id = j /\ HumanEvaluatedRow(row)

\* C3 as amended: right after a load, has_seen(j) holds exactly when some row
\* of either log for j is a sent row, a dry_run row or a skipped row without an
\* auto-skip prefix; error rows and auto-skip rows do not make j seen.
C3_SeenIffSentOrHumanEvaluated ==
    (alive /\ fresh) =>
        \A j \in JobIds :
            has_seen(tracker, j) <=>
                \E row \in AllRows :
                    row.job_id = j /\ (row.status = SENT \/ HumanEvaluatedRow(row))

C3_Witness ==
    /\ alive
    /\ fresh
    /\ \E j \in JobIds :
        /\ has_seen(tracker, j)
        /\ \A row \in AllRows : row.job_id = j => row.status = SENT
    /\ \E j \in JobIds :
        /\ ~has_seen(tracker, j)
        /\ \E row \in AllRows : row.job_id = j

\* C4: once the live log holds a sent row for a job_id, has_applied(job_id) is
\* true in the recording session and after every later load, whatever rows
\* are appended afterwards.
C4_SentStaysApplied ==
    alive => \A j \in JobIds : SentInLive(j) => has_applied(tracker, j)

C4_Witness ==
    /\ alive
    /\ fresh
    /\ Len(LiveRows) >= 2
    /\ \E j \in JobIds :
        /\ LiveRows[1].job_id = j
        /\ LiveRows[1].status = SENT
        /\ LiveRows[Len(LiveRows)].status # SENT
        /\ has_applied(tracker, j)

AutoSkipAppended(j) ==
    \E row \in [job_id : {j}, status : {SKIPPED}, notes : {NoteLocationFiltered, NoteAlreadyApplied}] :
        \/ DictReader(applications_csv') = Append(LiveRows, row)
        \/ DictReader(dry_runs_csv') = Append(DryRows, row)

\* C5: recording a skipped entry whose note starts with an auto-skip prefix
\* never turns has_seen(job_id) from false to true; a load never makes a job
\* seen whose only rows are auto-skips; and a normal-mode session offers every
\* discovered job whose only rows are auto-skips.
C5_AutoSkipNeverSeen ==
    /\ [][\A j \in JobIds :
            (alive /\ AutoSkipAppended(j) /\ ~has_seen(tracker, j)) => ~has_seen(tracker', j)]_vars
    /\ [](alive => \A j \in JobIds : OnlyAutoSkips(j) => ~has_seen(tracker, j))
    /\ []((pc \in {"filtered", "closing"} /\ ~listing.show_seen) =>
            \A j \in autoOnlyAtStart :
                j \in Range(listing.job_stubs) => j \in Range(listing.fresh_jobs))

C5_Witness ==
    /\ pc = "filtered"
    /\ ~listing.show_seen
    /\ \E j \in autoOnlyAtStart :
        /\ OnlyAutoSkips(j)
        /\ j \in Range(listing.job_stubs)
        /\ j \in Range(listing.fresh_jobs)

UserSkippedRow(j) == Application(j, SKIPPED, NoteUserSkipped)

\* C6: once a skipped row with note user_skipped is recorded for a job_id, by a
\* live or a dry-run tracker, has_seen(job_id) is true at once and after every
\* fresh load in either mode.
C6_UserSkipSeen ==
    alive => \A j \in JobIds : UserSkippedRow(j) \in AllRows => has_seen(tracker, j)

C6_Witness ==
    /\ alive
    /\ fresh
    /\ tracker.dry_run
    /\ \E j \in JobIds :
        /\ LiveRows = <<UserSkippedRow(j)>>
        /\ DryRows = << >>
        /\ has_seen(tracker, j)

\* C7: every job the reviewer approved and apply_to_job returned an Application
\* for is seen for the rest of the session and after every later load,
\* whatever the returned status.
C7_ApprovedStaysSeen ==
    alive => \A j \in approvedReturned : has_seen(tracker, j)

\* C8: record() appends to the log the tracker's mode names, for every status
\* and note: a live tracker to the live log, a dry-run tracker to the dry-run
\* log; the other log is untouched and the mode does not change.
C8_LogChosenByMode ==
    [][nrecords' # nrecords =>
        /\ tracker'.dry_run = tracker.dry_run
        /\ IF tracker.dry_run
           THEN /\ applications_csv' = applications_csv
                /\ Len(DictReader(dry_runs_csv')) = Len(DryRows) + 1
           ELSE /\ dry_runs_csv' = dry_runs_csv
                /\ Len(DictReader(applications_csv')) = Len(LiveRows) + 1]_vars

C8_Witness ==
    /\ \E row \in RowsOf(DryRows) : row.status = SENT
    /\ \E row \in RowsOf(LiveRows) : row.status = DRY_RUN

\* C9: each record() call appends exactly one row and rewrites none: the rows
\* of each log before a step are a prefix of its rows after it, and the total
\* row count grows by one per record() call and by nothing otherwise.
C9_AppendOnly ==
    [][/\ IsPrefix(LiveRows, DictReader(applications_csv'))
       /\ IsPrefix(DryRows, DictReader(dry_runs_csv'))
       /\ (Len(DictReader(applications_csv')) + Len(DictReader(dry_runs_csv'))) - TotalRows
            = nrecords' - nrecords]_vars

C9_Witness ==
    /\ nrecords = 2
    /\ \/ Len(LiveRows) = 2
       \/ Len(DryRows) = 2

FillFailed(a) == a.pc = "done" /\ a.page.fill # "ok" /\ "wait_textarea" \in Range(a.trace)

\* C10 as stated: every invocation of apply_to_job ends by returning an
\* Application with a status in {SENT, SKIPPED, ERROR, DRY_RUN}, also when
\* the message fill fails.
C10_AlwaysReturnsApplication ==
    ap.pc = "done" =>
        /\ ap.result.kind = "application"
        /\ ap.result.status \in ApplicationStatus

\* C10 as amended: an invocation whose fill step does not fail ends by
\* returning one Application with a status in {SENT, SKIPPED, ERROR, DRY_RUN};
\* an invocation whose fill step fails ends by raising and returns none.
C10_ReturnsApplicationUnlessFillFails ==
    /\ ap.pc \notin {"done", "idle"} => ENABLED NextApply
    /\ ap.pc = "done" =>
        IF FillFailed(ap)
        THEN ap.result = Raised
        ELSE /\ ap.result.kind = "application"
             /\ ap.result.status \in ApplicationStatus

C10_Witness ==
    /\ ap.pc = "done"
    /\ "dispatch_events" \in Range(ap.trace)
    /\ ap.result.kind = "application"

PageMutating == {"click_apply", "wait_modal", "wait_textarea", "click_textarea",
                 "fill_textarea", "dispatch_events", "wait_send", "click_send",
                 "wait_hidden", "click_close", "press_escape"}

\* C11: on a page that shows the already-applied indicator, every invocation of
\* apply_to_job makes the indicator query and nothing else (no click on the
\* apply control, no dialog wait, no fill, no send), returns SKIPPED with note
\* already_applied_on_site, and a repeated invocation returns the same again.
C11_IndicatorShortCircuits ==
    (ap.pc # "idle" /\ ap.page.already = "present") =>
        /\ Range(ap.trace) \cap PageMutating = {}
        /\ ~ap.modal_open
        /\ ap.pc \in {"check", "done"}
        /\ ap.pc = "done" =>
            /\ ap.trace = <<"query_already">>
            /\ ap.result = Returned(SKIPPED, NoteAlreadyApplied)
        /\ ap.calls > 1 => ap.prev = Returned(SKIPPED, NoteAlreadyApplied)

C11_Witness ==
    /\ ap.pc = "done"
    /\ ap.page.already = "present"
    /\ ap.page.apply = "clicked"
    /\ ap.calls = 2
    /\ ap.result = ap.prev
    /\ ap.result.status = SKIPPED

SendClicked(a) == "wait_hidden" \in Range(a.trace)

\* C12: in live mode, once the click on the send control went through,
\* apply_to_job returns SENT, both when the dialog closes within the wait and
\* when it stays open; an open dialog never turns the send into ERROR.
C12_SendClickedMeansSent ==
    (ap.pc = "done" /\ ~ap.dry_run /\ SendClicked(ap)) =>
        /\ ap.page.send \in {"closed", "stays_open", "hidden_raise"}
        /\ ap.result = Returned(SENT, NoNote)

C12_Witness ==
    /\ ap.pc = "done"
    /\ ~ap.dry_run
    /\ SendClicked(ap)
    /\ ap.page.send = "stays_open"
    /\ ap.modal_open
    /\ ap.result.status = SENT

FillDone(a) == a.page.fill = "ok" /\ "dispatch_events" \in Range(a.trace)

\* C13: in dry-run mode apply_to_job never reaches the submit step: for every
\* sequence of page outcomes it neither waits for nor clicks the send control
\* and never returns SENT, and once the fill went through it returns DRY_RUN.
C13_DryRunNeverSubmits ==
    (ap.pc # "idle" /\ ap.dry_run) =>
        /\ ap.pc \notin {"submit", "submit_failed"}
        /\ Range(ap.trace) \cap {"wait_send", "click_send", "wait_hidden"} = {}
        /\ ap.result.status # SENT
        /\ (ap.pc = "done" /\ FillDone(ap)) => ap.result = Returned(DRY_RUN, NoNote)

C13_Witness ==
    /\ ap.pc = "done"
    /\ ap.dry_run
    /\ FillDone(ap)
    /\ ap.page.send = "closed"
    /\ "query_close" \in Range(ap.trace)
    /\ ap.result.status = DRY_RUN

ReasonNotes == {NoteAlreadyApplied, NoteNoApplyButton, NoteModalNotOpened,
                NoteSubmitFailed, NoteLocationFiltered, NoteUserSkipped}

\* C14 as stated: every Application with a status other than SENT, produced by
\* apply_to_job or by run_main, carries a non-empty note (each Application is
\* recorded as it is produced, so the rows of the two logs are the Applications).
C14_NonSentHasNote ==
    \A row \in AllRows : row.status # SENT => row.notes # NoNote

\* C14 as amended: every Application with status SKIPPED or ERROR carries one
\* of the reason notes (already_applied_on_site, no_apply_button,
\* modal_not_opened, submit_failed, location_filtered: <value>, user_skipped);
\* an Application with status DRY_RUN or SENT carries the empty note.
C14_SkippedAndErrorHaveNote ==
    \A row \in AllRows :
        /\ row.status \in {SKIPPED, ERROR} => row.notes \in ReasonNotes
        /\ row.status \in {DRY_RUN, SENT} => row.notes = NoNote

C14_Witness ==
    \E row \in RowsOf(LiveRows) :
        /\ row.status = ERROR
        /\ row.notes = NoteSubmitFailed

\* C15: every job the reviewer approved and run_main handed to apply_to_job
\* gets one ledger row in that session, whatever the apply flow does, a
\* failing message fill included: the step that invokes apply_to_job for a
\* job appends one row for that job.
C15_ApprovedJobGetsRow ==
    [][applyInvoked' # applyInvoked =>
        \E j \in applyInvoked' \ applyInvoked :
            \E row \in [job_id : {j}, status : ApplicationStatus, notes : ReasonNotes \cup {NoNote}] :
                \/ DictReader(applications_csv') = Append(LiveRows, row)
                \/ DictReader(dry_runs_csv') = Append(DryRows, row)]_vars

Positions(seq, x) == {i \in 1..Len(seq) : seq[i] = x}

\* C16: in every invocation of apply_to_job the send control is waited for and
\* clicked only after the fill step of the same invocation went through to
\* its last page action; when the fill step fails, the invocation ends by
\* raising and the send control is not touched.
C16_SendOnlyAfterFill ==
    /\ \A i \in Positions(ap.trace, "wait_send") \cup Positions(ap.trace, "click_send") :
            /\ ap.page.fill = "ok"
            /\ \E k \in Positions(ap.trace, "dispatch_events") : k < i
            /\ \E k \in Positions(ap.trace, "fill_textarea") : k < i
    /\ (ap.page.fill # "ok" /\ Positions(ap.trace, "wait_textarea") # {}) =>
            /\ ap.pc = "done"
            /\ ap.result = Raised
            /\ Positions(ap.trace, "click_send") = {}

C16_Witness ==
    /\ ap.pc = "done"
    /\ ap.page.fill = "fill_raise"
    /\ ap.page.send = "closed"
    /\ ~ap.dry_run
    /\ Positions(ap.trace, "fill_textarea") # {}
    /\ ap.result = Raised

InLoop == pc \in {"company", "job", "review"}

BudgetReached == InLoop /\ sent_count >= args.max_applications

\* C17: in a session with send budget N the number of SENT Applications
\* apply_to_job has returned never exceeds N, the count of them never
\* exceeds N, and once the count has reached N no job is scraped, reviewed,
\* applied to or recorded and no company is offered: the job loop is left and
\* the session ends.
C17_BudgetBoundsSent ==
    /\ [](InLoop => sent_produced <= args.max_applications)
    /\ [](InLoop => sent_count <= args.max_applications)
    /\ [](pc = "review" => sent_count < args.max_applications)
    /\ [][BudgetReached =>
            /\ pc' \in {"company", "idle"}
            /\ pc = "company" => pc' = "idle"
            /\ nrecords' = nrecords
            /\ applyInvoked' \subseteq applyInvoked
            /\ selection' = << >>
            /\ job' \in {job, ""}]_vars

LogsUnchanged ==
    /\ applications_csv' = applications_csv
    /\ dry_runs_csv' = dry_runs_csv
    /\ nrecords' = nrecords

\* C18: after a quit at the per-job review the rest of the selection is
\* dropped and the only step left is the end of the session (summary and
\* cleanup): no company is offered, no job is scraped, reviewed or applied to,
\* and no row is written; a session that ends from the company picker, by its
\* quit among others, writes no row either.
C18_QuitStopsSession ==
    /\ [](user_quit =>
            /\ pc = "company"
            /\ selection = << >>
            /\ ~CompanyLoopRuns
            /\ ENABLED CompanyLoopExit)
    /\ [][user_quit =>
            /\ pc' = "idle"
            /\ ~alive'
            /\ LogsUnchanged
            /\ applyInvoked' \subseteq applyInvoked]_vars
    /\ [][(pc = "company" /\ pc' = "idle") =>
            /\ ~alive'
            /\ LogsUnchanged]_vars
    /\ [][(pc = "review" /\ user_quit') =>
            /\ LogsUnchanged
            /\ applyInvoked' = applyInvoked]_vars

C18_Witness ==
    /\ user_quit
    /\ pc = "company"
    /\ company_list # << >>
    /\ sent_count < args.max_applications

Excluded(j) ==
    IF listing.show_seen THEN j \in tracker.applied_ids ELSE j \in tracker.seen_ids

\* the jobs the session can still process
JobsInPlay ==
    UNION {Range(company_list[i]) : i \in 1..Len(company_list)}
        \cup Range(selection) \cup (IF pc = "review" THEN {job} ELSE {})

RowAppendedFor(j) ==
    \E row \in [job_id : {j}, status : ApplicationStatus, notes : ReasonNotes \cup {NoNote}] :
        \/ DictReader(applications_csv') = Append(LiveRows, row)
        \/ DictReader(dry_runs_csv') = Append(DryRows, row)

\* C19: the fresh stubs of a session are exactly the discovered stubs that are
\* not excluded, where normal mode excludes the job_ids in the seen set and
\* --show-seen mode excludes exactly those in the applied set (so a job that
\* is seen but not applied stays); the stubs grouped by company are the fresh
\* ones, and afterwards the session takes up no job from outside them: it
\* invokes apply_to_job and writes rows for jobs still in play only.
C19_FilterBySeenOrApplied ==
    /\ [](pc \in {"filtered", "closing"} =>
            Range(listing.fresh_jobs) = {j \in Range(listing.job_stubs) : ~Excluded(j)})
    /\ [][pc = "filtered" => JobsInPlay' \subseteq Range(listing.fresh_jobs)]_vars
    /\ [][InLoop =>
            /\ JobsInPlay' \subseteq JobsInPlay
            /\ applyInvoked' \subseteq applyInvoked \cup JobsInPlay
            /\ nrecords' # nrecords => \E j \in JobsInPlay : RowAppendedFor(j)]_vars

C19_Witness ==
    /\ pc = "filtered"
    /\ listing.show_seen
    /\ \E j \in Range(listing.fresh_jobs) :
        /\ j \in tracker.seen_ids
        /\ j \notin tracker.applied_ids

\* C20: once a record() call of the session has raised, the session processes
\* no further job: no company is offered, no job is shown for review or
\* handed to apply_to_job, and no row is written.
C20_WriteFailureIsFatal ==
    [][write_failed =>
        /\ pc' # "review"
        /\ ~(pc = "company" /\ pc' = "job")
        /\ applyInvoked' \subseteq applyInvoked
        /\ LogsUnchanged]_vars

\* C21: an exception raised while one job is processed stays with that job:
\* no step taken while a job is processed or about to be ends the session,
\* the job loop is left only when the selection is used up, the budget is
\* reached or the user quits, a step drops at most the job it handled from
\* the selection, and the next selected job can be shown for review.
C21_JobFaultContained ==
    /\ [][(pc \in {"job", "review"}) =>
            /\ pc' \in {"job", "review", "company"}
            /\ alive'
            /\ (pc' = "company" =>
                    (user_quit' \/
                     (pc = "job" /\ (selection = << >> \/ sent_count >= args.max_applications))))
            /\ (pc' # "company" =>
                    (selection' = selection \/
                     (selection # << >> /\ selection' = Tail(selection))))]_vars
    /\ [](JobLoopRuns => \E attempts \in GenAttempts : ENABLED ShowForReview(attempts))

C21_Witness ==
    /\ JobLoopRuns
    /\ job \in applyInvoked
    /\ nrecords = 0
    /\ ~write_failed
    /\ sent_produced = 0

AllAttemptsFail == [i \in 1..max_retries |-> "fail"]

\* C22: when every attempt of generate_message has failed, the job is still
\* shown for review and the message shown is the fallback template; the
\* fallback is used only then, a job at the review always has a message, and
\* the step that generates the message never ends the session.
C22_FallbackOnGenerationFailure ==
    /\ [](pc = "review" =>
            /\ message.text \in {"generated", "fallback"}
            /\ message.text = "fallback" <=> message.failures = max_retries
            /\ message.text = "generated" <=> message.failures < max_retries)
    /\ [](JobLoopRuns => ENABLED ShowForReview(AllAttemptsFail))
    /\ [][(pc = "job" /\ message' # NoMessage) => (pc' = "review" /\ alive')]_vars

C22_Witness ==
    /\ pc = "review"
    /\ message.text = "fallback"
    /\ message.failures = max_retries

\* C23: cleaning a cleaned text changes nothing: clean(clean(x)) = clean(x)
\* for every text x, with blank lines, chrome phrases, short single words and
\* allow-listed tags among its lines.
C23_CleanIdempotent ==
    doc.kind = "recleaned" => doc.twice = doc.once

C23_Witness ==
    /\ doc.kind = "recleaned"
    /\ doc.once # << >>
    /\ doc.once # doc.text
    /\ Len(split(doc.once, "\n")) < Len(split(doc.text, "\n"))
    /\ \E i \in 1..Len(split(doc.once, "\n")) : lower(split(doc.once, "\n")[i]) \in allowed_short
    /\ doc.twice = doc.once

ScenarioA == <<"A", "b", "o", "u", "t", "\n", "W", "e", " ", "b", "u", "i", "l", "d", " ", "t", "o", "o", "l", "s", " ", "f", "o", "r", " ", "X", ".", "\n", "R", "e", "q", "u", "i", "r", "e", "m", "e", "n", "t", "s", "\n", "5", " ", "y", "e", "a", "r", "s", ".">>

ScenarioALong == <<"A", "b", "o", "u", "t", "\n", "W", "e", " ", "b", "u", "i", "l", "d", " ", "t", "o", "o", "l", "s", " ", "f", "o", "r", " ", "X", ".", "\n", "R", "e", "q", "u", "i", "r", "e", "m", "e", "n", "t", "s", "\n", "5", " ", "y", "e", "a", "r", "s", " ", "o", "f", " ", "P", "y", "t", "h", "o", "n", ".">>

YieldingLinks(raw) ==
    {i \in 1..Len(raw) : /\ name_qualifies(strip(raw[i].name))
                         /\ \A k \in 1..(i - 1) : raw[k].href # raw[i].href}

\* the k-th link of a set of links in document order
KthLink(links, k) ==
    CHOOSE i \in links : Cardinality({m \in links : m < i}) = k - 1

\* founders are the first five of the given links, in their order
FirstFiveOf(founders, raw, links) ==
    /\ Len(founders) = Min(5, Cardinality(links))
    /\ \A k \in 1..Len(founders) :
          /\ founders[k].linkedin = raw[KthLink(links, k)].href
          /\ founders[k].name = strip(raw[KthLink(links, k)].name)

\* C25: founder extraction returns at most 5 founders, in document order of
\* their profile links; six qualifying links with distinct targets give the
\* first five; a link whose target repeats an earlier link's target
\* contributes no founder.
C25_FoundersCappedInOrder ==
    doc.kind = "founders" =>
        /\ Len(doc.founders) <= 5
        /\ YieldingLinks(doc.raw) # {} =>
              FirstFiveOf(doc.founders, doc.raw, YieldingLinks(doc.raw))

C25_Witness ==
    /\ doc.kind = "founders"
    /\ Len(doc.raw) = 6
    /\ YieldingLinks(doc.raw) = 1..6
    /\ [k \in 1..5 |-> doc.founders[k].linkedin] = <<1, 2, 3, 4, 5>>

\* ---------------------------------------------------------------------
\* Discovery
\* ---------------------------------------------------------------------
\* the links that remain after the skips: a job_id, not seen at an earlier link
RemainingLinks(raw) ==
    {i \in 1..Len(raw) : raw[i] # "" /\ \A k \in 1..(i - 1) : raw[k] # raw[i]}

\* jobs are the first max_jobs of the given links, in their order
FirstStubsOf(jobs, raw, links, max_jobs) ==
    /\ Len(jobs) = Min(max_jobs, Cardinality(links))
    /\ \A k \in 1..Len(jobs) : jobs[k] = raw[KthLink(links, k)]

\* C26: discover returns the first maxCount stubs, in discovery order, of
\* the job links that remain after skipping links whose job_id is empty or
\* already seen in the call; with at least maxCount distinct valid job_ids
\* on the page exactly maxCount stubs are returned.
C26_FirstMaxCountAfterSkips ==
    doc.kind = "stubs" =>
        FirstStubsOf(doc.jobs, doc.raw_stubs, RemainingLinks(doc.raw_stubs), doc.max_jobs)

\* ---------------------------------------------------------------------
\* The order of the apply flow
\* ---------------------------------------------------------------------
\* the step of apply_to_job a page action belongs to
StepOf(action) ==
    CASE action = "query_already" -> 1
      [] action \in {"wait_apply", "click_apply"} -> 2
      [] action = "wait_modal" -> 3
      [] action \in {"wait_textarea", "click_textarea", "fill_textarea", "dispatch_events"} -> 4
      [] action \in {"wait_send", "click_send", "wait_hidden"} -> 5
      [] OTHER -> 6

StepsTaken(a) == {StepOf(a.trace[i]) : i \in 1..Len(a.trace)}

LastStep(a) == StepOf(a.trace[Len(a.trace)])

\* C27: in every invocation of apply_to_job the page actions occur in the
\* order already-applied check, apply click, dialog wait, message fill, then
\* dialog close (dry-run) or send click; a later step is made only when every
\* earlier one succeeded; the returned status is determined by the step at
\* which the flow stopped.
C27_FixedOrderAndStatusByStep ==
    /\ \A i \in 1..(Len(ap.trace) - 1) : StepOf(ap.trace[i]) <= StepOf(ap.trace[i + 1])
    /\ \A n \in StepsTaken(ap) : \A m \in 1..(n - 1) :
            m \in StepsTaken(ap) \/ (m = 5 /\ ap.dry_run)
    /\ 2 \in StepsTaken(ap) => ap.page.already # "present"
    /\ 3 \in StepsTaken(ap) => ap.page.apply = "clicked"
    /\ 4 \in StepsTaken(ap) => ap.page.modal = "appears"
    /\ 5 \in StepsTaken(ap) => ap.page.fill = "ok" /\ ~ap.dry_run
    /\ 6 \in StepsTaken(ap) =>
            /\ ap.page.fill = "ok"
            /\ ap.dry_run \/ ap.page.send \notin {"closed", "stays_open", "hidden_raise"}
    /\ (ap.pc = "done" /\ ap.result.kind = "application") =>
            ap.result = CASE LastStep(ap) = 1 -> Returned(SKIPPED, NoteAlreadyApplied)
                          [] LastStep(ap) = 2 -> Returned(ERROR, NoteNoApplyButton)
                          [] LastStep(ap) = 3 -> Returned(ERROR, NoteModalNotOpened)
                          [] LastStep(ap) = 5 -> Returned(SENT, NoNote)
                          [] LastStep(ap) = 6 /\ ap.dry_run -> Returned(DRY_RUN, NoNote)
                          [] LastStep(ap) = 6 /\ ~ap.dry_run -> Returned(ERROR, NoteSubmitFailed)
                          [] OTHER -> NoResult

C27_Witness ==
    /\ ap.pc = "done"
    /\ ~ap.dry_run
    /\ ap.page.modal = "appears"
    /\ StepsTaken(ap) = 1..6
    /\ ap.result = Returned(ERROR, NoteSubmitFailed)

\* an exception was raised in _submit_application: at the wait for the send
\* control, at the click on it, or at the wait for the dialog to close (other
\* than the wait running out)
SubmitRaised(a) ==
    /\ "wait_send" \in Range(a.trace)
    /\ a.page.send \in {"wait_raise", "click_raise", "hidden_raise"}

\* C28: in the submit step any exception raised while locating or clicking
\* the send control or while waiting for the dialog to close gives ERROR with
\* note submit_failed; an exception never gives SENT.
C28_SubmitExceptionIsError ==
    (ap.pc = "done" /\ SubmitRaised(ap)) => ap.result = Returned(ERROR, NoteSubmitFailed)

\* ---------------------------------------------------------------------
\* Missing apply control, dialog that does not appear
\* ---------------------------------------------------------------------
\* pages that pass the already-applied check and then have no working apply
\* control (absent, wait raising, click raising) or no dialog within the wait
ControlFaultPages ==
    {page \in PageBehaviours :
        /\ page.already # "present"
        /\ page.apply # "clicked" \/ page.modal # "appears"}

FillAndSendActions == {"wait_textarea", "click_textarea", "fill_textarea",
                       "dispatch_events", "wait_send", "click_send", "wait_hidden"}

\* on each of them apply_to_job returns ERROR with the note of the fault and
\* makes no fill and no send
ControlFaultsReturnError ==
    \A page \in ControlFaultPages, dry_run \in BOOLEAN :
        LET a == RunApply(ApStart(page, dry_run))
        IN  /\ a.result = Returned(ERROR, IF page.apply # "clicked"
                                          THEN NoteNoApplyButton
                                          ELSE NoteModalNotOpened)
            /\ Range(a.trace) \cap FillAndSendActions = {}
            /\ ~a.modal_open

ControlFaultRows ==
    [job_id : JobIds, status : {ERROR}, notes : {NoteNoApplyButton, NoteModalNotOpened}]

RowAppended(row) ==
    \/ DictReader(applications_csv') = Append(LiveRows, row)
    \/ DictReader(dry_runs_csv') = Append(DryRows, row)

\* C29: a missing or unresponsive apply control gives ERROR no_apply_button
\* and a dialog that does not appear within its wait gives ERROR
\* modal_not_opened; apply_to_job returns normally, makes no fill and no
\* send, and the session goes on to the next job.
C29_ControlFaultsAreErrors ==
    /\ []ControlFaultsReturnError
    /\ [][\A row \in ControlFaultRows : RowAppended(row) =>
              /\ pc = "review"
              /\ row.job_id = job
              /\ pc' = "job"
              /\ alive'
              /\ ~user_quit'
              /\ selection' = selection
              /\ company_list' = company_list
              /\ sent_count' = sent_count]_vars

C29_Witness ==
    /\ JobLoopRuns
    /\ job \in approvedReturned
    /\ nrecords = 1
    /\ \E row \in AllRows :
          row.job_id = job /\ row.status = ERROR /\ row.notes = NoteModalNotOpened

\* C30: whenever apply_to_job returns DRY_RUN or ERROR with note
\* submit_failed, the submission dialog is closed when it returns, for every
\* page behaviour (close control present, absent, click raising).
C30_DialogClosedOnReturn ==
    (ap.pc = "done" /\ ap.result \in {Returned(DRY_RUN, NoNote), Returned(ERROR, NoteSubmitFailed)}) =>
        ~ap.modal_open

\* ---------------------------------------------------------------------
\* Retries of the generation call
\* ---------------------------------------------------------------------
\* the attempts that raise before the first one that returns
FailuresBeforeSuccess(outcomes) ==
    IF \E k \in 1..max_retries : outcomes[k] \in GenValues
    THEN (CHOOSE k \in 1..max_retries :
              /\ outcomes[k] \in GenValues
              /\ \A m \in 1..(k - 1) : outcomes[m] \in GenErrors) - 1
    ELSE max_retries

\* C31: a generation call whose attempts all fail makes exactly 3 attempts,
\* waits 1 and then 2 seconds after the first two, does not wait after the
\* last, and raises the last error; a call whose attempt k succeeds returns
\* that attempt's result and makes no further attempt.
C31_ThreeAttemptsWithBackoff ==
    doc.kind = "retry" =>
        LET failed == FailuresBeforeSuccess(doc.outcomes)
        IN  /\ doc.calls <= max_retries
            /\ doc.calls <= failed + 1
            /\ \E n \in 0..2 : doc.sleeps = SubSeq(<<1, 2>>, 1, n)
            /\ Len(doc.sleeps) <= doc.calls
            /\ doc.pc = "raised" =>
                    /\ failed = max_retries
                    /\ doc.calls = 3
                    /\ doc.sleeps = <<1, 2>>
                    /\ doc.result = doc.outcomes[3]
            /\ doc.pc = "returned" =>
                    /\ failed < max_retries
                    /\ doc.calls = failed + 1
                    /\ doc.sleeps = SubSeq(<<1, 2>>, 1, failed)
                    /\ doc.result = doc.outcomes[failed + 1]
            /\ doc.pc \in {"raised", "returned"} =>
                    LET r == retry_async([k \in 1..max_retries |->
                                 IF doc.outcomes[k] \in GenValues THEN "ok" ELSE "fail"])
                    IN  /\ r.kind = "raise" <=> doc.pc = "raised"
                        /\ r.failures = failed

C31_Witness ==
    /\ doc.kind = "retry"
    /\ doc.pc = "raised"
    /\ doc.outcomes = <<"e1", "e1", "e2">>
    /\ doc.result = "e2"
    /\ doc.sleeps = <<1, 2>>

\* ---------------------------------------------------------------------
\* The fan-out before the review
\* ---------------------------------------------------------------------
TaskFinished(task) == task.pc \in {"returned", "raised"}

\* C32: for every job that reaches review, both the generation call and the
\* summarization call have finished (returned or failed) before the review
\* prompt is shown; neither is in flight during the review or the apply flow
\* that follows, also when generation fails.
C32_BothFinishedBeforeReview ==
    (doc.kind = "fanout" /\ doc.pc \in {"review", "apply"}) =>
        TaskFinished(doc.gen) /\ TaskFinished(doc.sum)

\* C33: the two calls fail independently: when summarization fails and
\* generation succeeds the generated message is reviewed with empty
\* summaries; when generation fails and summarization succeeds the fallback
\* message is reviewed and the job carries the summaries that summarization
\* returned.
C33_IndependentFailures ==
    (doc.kind = "fanout" /\ doc.pc = "review") =>
        /\ (doc.sum.failed /\ doc.gen.pc = "returned") =>
                doc.message = "generated" /\ doc.about_summary = ""
        /\ (doc.gen.pc = "raised" /\ doc.sum.pc = "returned" /\ doc.sum.value \in Summaries) =>
                doc.message = "fallback" /\ doc.about_summary = doc.sum.value

\* the place of the first link of the page with the given job_id
FirstOccurrence(raw, job_id) ==
    CHOOSE i \in 1..Len(raw) : raw[i] = job_id /\ \A k \in 1..(i - 1) : raw[k] # job_id

\* C34: the stubs one discover call returns have pairwise distinct, non-empty
\* job_ids, there are at most maxCount of them, and they stand in the order
\* in which their links first occur on the page.
C34_StubsDistinctBoundedOrdered ==
    doc.kind = "stubs" =>
        /\ \A k \in 1..Len(doc.jobs) :
              /\ doc.jobs[k] # ""
              /\ doc.jobs[k] \in Range(doc.raw_stubs)
        /\ \A k, m \in 1..Len(doc.jobs) : doc.jobs[k] = doc.jobs[m] => k = m
        /\ Len(doc.jobs) <= doc.max_jobs
        /\ \A k, m \in 1..Len(doc.jobs) :
              k < m => FirstOccurrence(doc.raw_stubs, doc.jobs[k])
                         < FirstOccurrence(doc.raw_stubs, doc.jobs[m])

C34_Witness ==
    /\ doc.kind = "stubs"
    /\ doc.raw_stubs = <<"j2", "j2", "j1">>
    /\ doc.max_jobs = 3
    /\ doc.jobs = <<"j2", "j1">>

\* ---------------------------------------------------------------------
\* The location filter
\* ---------------------------------------------------------------------
\* the location names none of the allowed ones, letter case aside
NoneAllowed(allowed, location) ==
    \A i \in 1..Len(allowed) : ~Contains(lower(location), lower(allowed[i]))

\* the job went through the job body as an auto-skip: nothing shown,
\* generated or applied, no counter moved
AutoSkipped(d) ==
    /\ d.pc = "next"
    /\ ~d.generated
    /\ ~d.reviewed
    /\ ~d.applied
    /\ d.sent_count = 0
    /\ d.job_number = d.shown_before

LocationRow(d) ==
    /\ Len(d.rows) = 1
    /\ d.rows[1].job_id = d.job_id
    /\ d.rows[1].status = SKIPPED
    /\ StartsWith(d.rows[1].notes, <<"location_filtered">>)

Reloaded == NewTrackerState(tracker.dry_run, applications_csv, dry_runs_csv)

\* C36: after any sequence of record() calls made in a session, has_seen(j)
\* and has_applied(j) of the session's tracker equal, for every job_id j, the
\* answers of a fresh tracker loaded from the same two log files.
C36_MemoryEqualsReload ==
    alive =>
        \A j \in JobIds :
            /\ has_seen(tracker, j) = has_seen(Reloaded, j)
            /\ has_applied(tracker, j) = has_applied(Reloaded, j)

\* C37: in every tracker state the program reaches (after a load, after any
\* record() of an Application the program produces) every job_id of the
\* applied set is in the seen set, so the normal-mode filter by seen leaves
\* no applied job among the fresh stubs.
C37_AppliedWithinSeen ==
    /\ tracker.applied_ids \subseteq tracker.seen_ids
    /\ Reloaded.applied_ids \subseteq Reloaded.seen_ids
    /\ (pc = "filtered" /\ ~listing.show_seen) =>
            Range(listing.fresh_jobs) \cap tracker.applied_ids = {}

C37_Witness ==
    /\ pc \in {"filtered", "closing"}
    /\ fresh
    /\ ~listing.show_seen
    /\ Range(listing.job_stubs) \cap tracker.applied_ids # {}
    /\ Range(listing.fresh_jobs) \cap tracker.applied_ids = {}

\* C38: across any sequence of live and dry-run sessions the live log holds
\* no row with status dry_run and the dry-run log holds no row with status
\* sent: a dry-run session produces no SENT Application, a live session no
\* DRY_RUN Application.
C38_LogsKeepTheirStatuses ==
    /\ \A row \in RowsOf(LiveRows) : row.status # DRY_RUN
    /\ \A row \in RowsOf(DryRows) : row.status # SENT
    /\ \A result \in ApplyResultsDry : result.kind = "application" => result.status # SENT
    /\ \A result \in ApplyResultsLive : result.kind = "application" => result.status # DRY_RUN

C38_Witness ==
    /\ args.dry_run
    /\ job \in approvedReturned
    /\ \E row \in RowsOf(DryRows) : row.job_id = job /\ row.status = DRY_RUN
    /\ LiveRows = << >>

\* ---------------------------------------------------------------------
\* One apply per job and session
\* ---------------------------------------------------------------------
\* the steps of run_main that call apply_to_job
ApplyInvocation ==
    \E result \in ApplyResultsLive \cup ApplyResultsDry :
        \/ ReviewApprove(result)
        \/ ReviewApproveRaises(result)
        \/ ReviewApproveWriteFails(result)

SentRowsFor(j) == {i \in 1..Len(LiveRows) : LiveRows[i].job_id = j /\ LiveRows[i].status = SENT}

\* C39: within one session apply_to_job is invoked at most once per job_id
\* and at most one SENT row per job_id is appended, for every sequence of
\* choices in the company picker and the reviewer, a picker selection that
\* names the same posting more than once included.
C39_OneApplyPerJob ==
    /\ (pc = "review" /\ job \in applyInvoked) => ~ENABLED ApplyInvocation
    /\ \A j \in JobIds : Cardinality(SentRowsFor(j)) <= 1

====
